---- MODULE Spec2Model ----
(***************************************************************************)
(* The structured generation pipeline of VibeTravels:                      *)
(*   TravelPlanService.generatePlan -> OpenRouterService (constructor)     *)
(*   -> getStructuredData (attempt loop, tool-call extraction, JSON parse, *)
(*      clean-up of the `days` array, schema validation)                   *)
(*   -> fetchFromApi (HTTP call, status mapping, error wrapping).          *)
(* Source: src/src/lib/openrouter.service.ts.                              *)
(*                                                                         *)
(* One behaviour is one generatePlan call.  Each action is the synchronous *)
(* code between two awaits of that call; the provider (fetch, the response *)
(* body) is the environment and chooses its answers by \E.                 *)
(***************************************************************************)
EXTENDS Integers, Sequences, FiniteSets, TLC

\* ------------------------------------------------------------------ bounds

\* Largest attempt bound explored.  The source fixes `maxRetries` at
\* DefaultMaxRetries (line 170); the loop is modelled for every value of that
\* constant from the source's up to this bound.
MaxAttempts == 3

\* Longest `days` array in a provider payload.
MaxDays == 2

\* const maxRetries = 1
DefaultMaxRetries == 1

\* ------------------------------------------------------- JSON documents

Times == {"morning", "afternoon", "evening"}

\* z.enum of priceCategory
PriceCategories == {"free", "budget", "moderate", "expensive"}

\* Activities a payload is built from: one with a priceCategory of the
\* enumeration, one with a value outside it.
Activity(name, price) == [name |-> name, priceCategory |-> price]
ActMuseum == Activity("museum", "free")
ActDinner == Activity("dinner", "luxury")

NoPeriods == [morning |-> <<>>, afternoon |-> <<>>, evening |-> <<>>]

\* The value of a day's `activities` key.  t = "absent": no such key;
\* t = "array": a JSON array `items`; t = "object": an object with the keys
\* `keys`, key k holding the array per[k].
ActivitiesAbsent == [t |-> "absent", items |-> <<>>, keys |-> {}, per |-> NoPeriods]
ActivitiesArray(items) == [t |-> "array", items |-> items, keys |-> {}, per |-> NoPeriods]
ActivitiesObject(keys, per) == [t |-> "object", items |-> <<>>, keys |-> keys, per |-> per]

\* An element of `days`.  t = "null": JSON null; t = "scalar": a string or a
\* number; t = "object": an object whose keys are those flagged present.
ElemNull == [t |-> "null", hasDay |-> FALSE, day |-> 0, hasDisclaimer |-> FALSE,
             disclaimer |-> "", hasTitle |-> FALSE, act |-> ActivitiesAbsent]
ElemScalar == [ElemNull EXCEPT !.t = "scalar"]
ElemEmptyObject == [ElemNull EXCEPT !.t = "object"]
Day(n, act) == [ElemEmptyObject EXCEPT !.hasDay = TRUE, !.day = n, !.hasTitle = TRUE, !.act = act]
DisclaimerOnly(text) == [ElemEmptyObject EXCEPT !.hasDisclaimer = TRUE, !.disclaimer = text]

\* The elements provider payloads are built from: the shapes the clean-up
\* of lines 197-244 tells apart, and the shapes the schema tells apart.
ElemPool ==
  { ElemNull, ElemScalar, ElemEmptyObject,
    \* a well-formed partial day (only `evening`)
    Day(1, ActivitiesObject({"evening"}, [NoPeriods EXCEPT !.evening = <<ActMuseum>>])),
    \* a well-formed day with two periods
    Day(2, ActivitiesObject({"morning", "afternoon"},
                            [NoPeriods EXCEPT !.morning = <<ActMuseum>>, !.afternoon = <<ActMuseum, ActMuseum>>])),
    \* activities as a flat array
    Day(3, ActivitiesArray(<<ActMuseum, ActDinner, ActMuseum>>)),
    \* a priceCategory outside the enumeration
    Day(4, ActivitiesObject({"afternoon"}, [NoPeriods EXCEPT !.afternoon = <<ActDinner>>])),
    \* disclaimer objects placed inside `days`, one with activities as an array
    DisclaimerOnly("first"),
    [DisclaimerOnly("second") EXCEPT !.act = ActivitiesArray(<<ActMuseum>>)],
    \* a day that also carries a disclaimer key
    [Day(5, ActivitiesObject({}, NoPeriods)) EXCEPT !.hasDisclaimer = TRUE, !.disclaimer = "kept"],
    \* no day key, no disclaimer key, activities as an empty array
    [ElemEmptyObject EXCEPT !.hasTitle = TRUE, !.act = ActivitiesArray(<<>>)] }

SeqsUpTo(S, n) == UNION { [1..k -> S] : k \in 0..n }

\* A parsed payload.  t = "none": no document; "null", "scalar", "array": a JSON
\* value that is not an object; "object": an object whose `days` key is absent
\* (hasDays = FALSE), holds a non-array (daysIsArray = FALSE) or holds `days`.
NoDoc == [t |-> "none", hasDays |-> FALSE, daysIsArray |-> FALSE, days |-> <<>>,
          hasDisclaimer |-> FALSE, disclaimer |-> ""]
Object(hasDays, isArray, days, hasDisclaimer, disclaimer) ==
  [t |-> "object", hasDays |-> hasDays, daysIsArray |-> isArray, days |-> days,
   hasDisclaimer |-> hasDisclaimer, disclaimer |-> disclaimer]
Plan(days, hasDisclaimer, disclaimer) == Object(TRUE, TRUE, days, hasDisclaimer, disclaimer)

TopDisclaimers == { <<FALSE, "">>, <<TRUE, "top">> }

Docs ==
  { [NoDoc EXCEPT !.t = t] : t \in {"null", "scalar", "array"} }
  \cup { Object(FALSE, FALSE, <<>>, d[1], d[2]) : d \in TopDisclaimers }
  \cup { Object(TRUE, FALSE, <<>>, d[1], d[2]) : d \in TopDisclaimers }
  \cup { Plan(days, d[1], d[2]) : days \in SeqsUpTo(ElemPool, MaxDays), d \in TopDisclaimers }

\* The tool call's `arguments`: `present` = FALSE when the key is missing
\* (undefined), otherwise the JSON text of `doc`, cut short when ~complete.
RawUndefined == [present |-> FALSE, complete |-> FALSE, doc |-> NoDoc]
RawText(doc, complete) == [present |-> TRUE, complete |-> complete, doc |-> doc]

Raws ==
  { RawText(d, TRUE) : d \in Docs }
  \cup { RawText(d, FALSE) : d \in { x \in Docs : Len(x.days) <= 1 } }
  \cup { RawUndefined }

\* JSON.parse(rawJson): throws a SyntaxError on undefined and on a text that is
\* not complete JSON.
JSONParseThrows(rawJson) == ~rawJson.present \/ ~rawJson.complete
JSONParse(rawJson) == rawJson.doc

\* ---------------------------------------------------------------- errors

OpenRouterErrors ==
  { "AuthenticationError", "BadRequestError", "RateLimitError", "ServerError",
    "InvalidJSONResponseError", "SchemaValidationError" }

\* Exceptions that are no OpenRouter error: `new Error(...)` and the
\* TypeError / SyntaxError / network rejections the runtime raises.
PlainErrors == { "Error", "TypeError", "SyntaxError", "NetworkError", "BodyReadError" }

\* The ZodError of a failed safeParse: whether the document itself is at fault
\* (not an object, `days` or `disclaimer` missing or of the wrong type) and the
\* positions in `days` of the elements at fault.
Issues(top, days) == [top |-> top, days |-> days]
NoIssues == Issues(FALSE, {})

\* An exception: its class, the message text (the provider's body for
\* BadRequestError), the raw arguments an InvalidJSONResponseError carries, and
\* the issues a SchemaValidationError carries.
NoError == [kind |-> "none", text |-> "", raw |-> RawUndefined, issues |-> NoIssues]
Err(kind) == [NoError EXCEPT !.kind = kind]
AuthenticationError == Err("AuthenticationError")
BadRequestError(message) == [Err("BadRequestError") EXCEPT !.text = message]
RateLimitError == Err("RateLimitError")
ServerError == Err("ServerError")
InvalidJSONResponseError(rawJson) == [Err("InvalidJSONResponseError") EXCEPT !.raw = rawJson]
SchemaValidationError(issues) == [Err("SchemaValidationError") EXCEPT !.issues = issues]

\* ------------------------------------------------- clean-up of `days`

\* lines 199-204
HasDaysArray(parsedJson) ==
  parsedJson.t = "object" /\ parsedJson.hasDays /\ parsedJson.daysIsArray

\* the predicate of findIndex, lines 208-210
IsDisclaimerObject(day) ==
  day.t # "null" /\ day.t = "object" /\ day.hasDisclaimer /\ ~day.hasDay

\* findLastIndex in the place of findIndex
DisclaimerIndexLast(days) ==
  IF \E i \in 1..Len(days) : IsDisclaimerObject(days[i])
  THEN CHOOSE i \in 1..Len(days) :
         IsDisclaimerObject(days[i]) /\ \A j \in (i + 1)..Len(days) : ~IsDisclaimerObject(days[j])
  ELSE 0

\* Array.prototype.findIndex, 1-based; 0 stands for -1
DisclaimerIndex(days) ==
  IF \E i \in 1..Len(days) : IsDisclaimerObject(days[i])
  THEN CHOOSE i \in 1..Len(days) :
         IsDisclaimerObject(days[i]) /\ \A j \in 1..(i - 1) : ~IsDisclaimerObject(days[j])
  ELSE 0

\* days.splice(i, 1)
Splice(days, i) == [j \in 1..(Len(days) - 1) |-> IF j < i THEN days[j] ELSE days[j + 1]]

\* lines 212-216 without the assignment of line 214
ExtractDisclaimerNotHoisted(cleaned) ==
  LET disclaimerIndex == DisclaimerIndex(cleaned.days)
  IN IF disclaimerIndex # 0
     THEN [cleaned EXCEPT !.days = Splice(cleaned.days, disclaimerIndex)]
     ELSE cleaned

\* lines 212-216
ExtractDisclaimer(cleaned) ==
  LET disclaimerIndex == DisclaimerIndex(cleaned.days)
  IN IF disclaimerIndex # 0
     THEN [cleaned EXCEPT !.hasDisclaimer = TRUE,
                          !.disclaimer = cleaned.days[disclaimerIndex].disclaimer,
                          !.days = Splice(cleaned.days, disclaimerIndex)]
     ELSE cleaned

\* Object.keys(dayObj).length === 0
NoKeys(dayObj) ==
  ~dayObj.hasDay /\ ~dayObj.hasDisclaimer /\ ~dayObj.hasTitle /\ dayObj.act.t = "absent"

\* the filter callback's verdict without the test of line 224
KeepDayKeepsEmpty(day) ==
  /\ ~(day.t = "null" \/ day.t # "object")
  /\ ~(day.hasDisclaimer /\ ~day.hasDay)

\* the filter callback's verdict with line 226 testing the disclaimer key only
KeepDayDropsDisclaimerKey(day) ==
  /\ ~(day.t = "null" \/ day.t # "object")
  /\ ~NoKeys(day)
  /\ ~day.hasDisclaimer

\* the filter callback's verdict, lines 221-226 and 241
KeepDay(day) ==
  /\ ~(day.t = "null" \/ day.t # "object")
  /\ ~NoKeys(day)
  /\ ~(day.hasDisclaimer /\ ~day.hasDay)

\* the filter callback without lines 230-236
FixActivitiesSkipped(dayObj) == dayObj

\* the filter callback giving every day all three periods, which the comment
\* of lines 238-239 rules out
FixActivitiesFillsPeriods(dayObj) ==
  IF dayObj.act.t = "array"
  THEN [dayObj EXCEPT !.act = ActivitiesObject({"afternoon"},
                                   [NoPeriods EXCEPT !.afternoon = dayObj.act.items])]
  ELSE IF dayObj.act.t = "object"
  THEN [dayObj EXCEPT !.act = ActivitiesObject(Times, dayObj.act.per)]
  ELSE dayObj

\* the filter callback's side effect on a kept day, lines 230-236
FixActivities(dayObj) ==
  IF dayObj.act.t = "array"
  THEN [dayObj EXCEPT !.act = ActivitiesObject({"afternoon"},
                                   [NoPeriods EXCEPT !.afternoon = dayObj.act.items])]
  ELSE dayObj

\* lines 219-242
FilterDays(days) ==
  LET kept == SelectSeq(days, KeepDay)
  IN [i \in 1..Len(kept) |-> FixActivities(kept[i])]

\* lines 199-244 with a payload that has no `days` array given an empty one
CleanResponseDefaultsDays(parsedJson) ==
  IF HasDaysArray(parsedJson)
  THEN LET cleaned == ExtractDisclaimer(parsedJson)
       IN [cleaned EXCEPT !.days = FilterDays(cleaned.days)]
  ELSE [parsedJson EXCEPT !.hasDays = TRUE, !.daysIsArray = TRUE, !.days = <<>>]

\* lines 199-244: the document handed to safeParse
CleanResponse(parsedJson) ==
  IF HasDaysArray(parsedJson)
  THEN LET cleaned == ExtractDisclaimer(parsedJson)
       IN [cleaned EXCEPT !.days = FilterDays(cleaned.days)]
  ELSE parsedJson

\* ------------------------------------------------------------ validation

\* TravelPlanContentSchema (src/lib/schemas/travel-plan.schema.ts), after the
\* data model of the specification: { days: Day[], disclaimer: string } with
\* Day = { day, title, activities: { morning?, afternoon?, evening? } } and
\* every activity's priceCategory one of the four values.

\* the activity schema with priceCategory any string
ValidActivityAnyPrice(a) == TRUE

\* the activity schema
ValidActivity(a) == a.priceCategory \in PriceCategories

ValidActivities(act) ==
  /\ act.t = "object"
  /\ \A k \in act.keys : \A i \in 1..Len(act.per[k]) : ValidActivity(act.per[k][i])

ValidDay(day) ==
  day.t = "object" /\ day.hasDay /\ day.hasTitle /\ ValidActivities(day.act)

\* params.schema.safeParse(parsedJson).error
SafeParseIssues(doc) ==
  Issues(~(doc.t = "object" /\ doc.hasDays /\ doc.daysIsArray /\ doc.hasDisclaimer),
         { i \in 1..Len(doc.days) : ~ValidDay(doc.days[i]) })

\* params.schema.safeParse(parsedJson).success
SafeParseSuccess(doc) == SafeParseIssues(doc) = NoIssues

\* --------------------------------------------------------- the provider

\* HTTP statuses the provider answers with
Statuses == {200, 201, 302, 400, 401, 403, 429, 500, 503}

\* Response.ok
Ok(status) == status >= 200 /\ status <= 299

\* bodies of a 400 answer
BodyTexts == {"", "provider: invalid schema"}

ToolTypes == {"function", "code_interpreter"}

\* The JSON body of a 2xx answer, as far as lines 179-187 look at it:
\* "noChoices": choices missing or empty; "noToolCalls": a message without a
\* first tool call; "noFunction": a tool call without `function`;
\* "toolCall": a tool call of type `type` with function.arguments.
ResponseJson(shape, type, arguments) == [shape |-> shape, type |-> type, arguments |-> arguments]
NoResponseJson == ResponseJson("none", "", RawUndefined)

ResponseJsons ==
  { ResponseJson(shape, "", RawUndefined) : shape \in {"noChoices", "noToolCalls"} }
  \cup { ResponseJson("noFunction", type, RawUndefined) : type \in ToolTypes }
  \cup { ResponseJson("toolCall", "function", arguments) : arguments \in Raws }
  \cup { ResponseJson("toolCall", "code_interpreter", arguments) :
            arguments \in { r \in Raws : Len(r.doc.days) = 0 } }

\* ------------------------------------------------------- fetchFromApi

\* the switch of lines 298-309 without `case 429`
StatusErrorNo429(st, text) ==
  CASE st = 401 -> AuthenticationError
    [] st = 400 -> BadRequestError(text)
    [] OTHER -> ServerError

\* the switch of lines 298-309; errorText is what response.text() gave
StatusError(st, text) ==
  CASE st = 401 -> AuthenticationError
    [] st = 400 -> BadRequestError(text)
    [] st = 429 -> RateLimitError
    [] OTHER -> ServerError

\* `await response.text()` is reached only inside `case 400`, lines 301-302
ReadsErrorText(st) == st = 400

\* the catch of lines 314-327 without line 326: every exception re-thrown
FetchCatchRethrows(error) == error

\* the catch of lines 314-327
FetchCatch(error) ==
  IF error.kind \in {"AuthenticationError", "BadRequestError", "RateLimitError", "ServerError"}
  THEN error
  ELSE ServerError

\* --------------------------------------- getStructuredData, one attempt

\* What the try block of lines 176-253 does with the body fetchFromApi
\* returned: the exception it throws (NoError when it returns), the value it
\* returns, the payload JSON.parse gave and the document safeParse was given
\* (NoDoc when that point was not reached).
AttemptResult(error, data, parsedJson, validated) ==
  [error |-> error, data |-> data, parsedJson |-> parsedJson, validated |-> validated]

\* lines 179-187: the exception thrown while the tool call is picked out of
\* the body, NoError when rawJson is reached
ToolCallError(responseJson) ==
  IF responseJson.shape \in {"noChoices", "noToolCalls"}
  THEN Err("TypeError")    \* line 179: property access on undefined
  ELSE IF responseJson.type # "function"
  THEN Err("Error")        \* lines 182-184
  ELSE IF responseJson.shape = "noFunction"
  THEN Err("TypeError")    \* line 187: toolCall.function is undefined
  ELSE NoError

\* lines 189-253 with the catch of lines 193-195 letting the text through to
\* the clean-up and the validation as the payload `null`
ParseAndValidateUnparsed(rawJson) ==
  LET parsed == IF JSONParseThrows(rawJson) THEN [NoDoc EXCEPT !.t = "null"] ELSE JSONParse(rawJson)
      cleaned == CleanResponse(parsed)
  IN IF ~SafeParseSuccess(cleaned)
     THEN AttemptResult(SchemaValidationError(SafeParseIssues(cleaned)), NoDoc, parsed, cleaned)
     ELSE AttemptResult(NoError, cleaned, parsed, cleaned)

\* lines 189-253
ParseAndValidate(rawJson) ==
  IF JSONParseThrows(rawJson)
  THEN \* lines 191-195
       AttemptResult(InvalidJSONResponseError(rawJson), NoDoc, NoDoc, NoDoc)
  ELSE LET parsed == JSONParse(rawJson)
           cleaned == CleanResponse(parsed)
       IN IF ~SafeParseSuccess(cleaned)
          THEN \* lines 247-250
               AttemptResult(SchemaValidationError(SafeParseIssues(cleaned)), NoDoc, parsed, cleaned)
          ELSE \* line 253
               AttemptResult(NoError, cleaned, parsed, cleaned)

TryBlock(json) ==
  IF ToolCallError(json) # NoError
  THEN AttemptResult(ToolCallError(json), NoDoc, NoDoc, NoDoc)
  ELSE ParseAndValidate(json.arguments)

\* ------------------------------------------------ generatePlan's prompts
\* (the Polish texts are written without diacritics)

\* The longest list of preference tags given to generatePlan.
MaxTags == 2

\* `undefined`
Absent == "absent"

\* TravelPlanOptions (src/types.ts): every field optional
Styles == {"adventure", "leisure"}
Transports == {"car", "public", "walking"}
Budgets == {"economy", "standard", "luxury"}

\* The `options` argument: undefined (present = FALSE) or a TravelPlanOptions.
NoOptions == [present |-> FALSE, style |-> Absent, transport |-> Absent, budget |-> Absent]
Options(style, transport, budget) ==
  [present |-> TRUE, style |-> style, transport |-> transport, budget |-> budget]
OptionsValues ==
  { NoOptions }
  \cup { Options(s, t, b) : s \in Styles \cup {Absent}, t \in Transports \cup {Absent},
                            b \in Budgets \cup {Absent} }

\* The `userPreferences` argument: undefined (present = FALSE) or a list of tags.
Tags == {"wloska kuchnia", "historia"}
NoPreferences == [present |-> FALSE, tags |-> <<>>]
Preferences(tags) == [present |-> TRUE, tags |-> tags]
PreferencesValues == { NoPreferences } \cup { Preferences(t) : t \in SeqsUpTo(Tags, MaxTags) }

\* The `noteContent` argument
Notes == {"Wycieczka 15-18 listopada.", "Przylatuje 5 czerwca, wracam 12 czerwca"}

\* A calendar date, and a < b for dates
Date(y, m, d) == <<y, m, d>>
Earlier(a, b) ==
  \/ a[1] < b[1]
  \/ a[1] = b[1] /\ a[2] < b[2]
  \/ a[1] = b[1] /\ a[2] = b[2] /\ a[3] < b[3]

\* What `new Date()` gives while the prompt is built: the UTC date of
\* toISOString() (line 413) and the local year of getFullYear() (lines 416-418),
\* which differ around midnight of New Year's Eve away from UTC.
Clock(today, year) == [today |-> today, year |-> year]

\* The instant of the call, as its UTC date and hour, and the offsets in hours
\* of the server's time zone from UTC.
Instant(date, hour) == [date |-> date, hour |-> hour]
Instants ==
  { Instant(Date(2025, 11, 5), 12), Instant(Date(2026, 3, 1), 12), Instant(Date(2026, 11, 3), 12),
    Instant(Date(2025, 12, 31), 23), Instant(Date(2026, 1, 1), 2) }
Offsets == {0 - 5, 0, 1}

\* getFullYear(): the year of the instant on the server's local calendar
LocalYear(instant, offset) ==
  LET date == instant.date
  IN IF date[2] = 12 /\ date[3] = 31 /\ instant.hour + offset >= 24 THEN date[1] + 1
     ELSE IF date[2] = 1 /\ date[3] = 1 /\ instant.hour + offset < 0 THEN date[1] - 1
     ELSE date[1]

Clocks == { Clock(i.date, LocalYear(i, o)) : i \in Instants, o \in Offsets }

\* The arguments of one generatePlan call and the clock it runs under.
Input(noteContent, options, userPreferences, clock) ==
  [noteContent |-> noteContent, options |-> options, userPreferences |-> userPreferences,
   clock |-> clock]
Inputs ==
  { Input(n, o, p, c) : n \in Notes, o \in OptionsValues, p \in PreferencesValues, c \in Clocks }
DefaultInput ==
  Input("Wycieczka 15-18 listopada.", NoOptions, NoPreferences, Clock(Date(2025, 11, 5), 2025))

\* options?.style and the like, lines 397-399
OptionalField(options, field) == IF options.present THEN options[field] ELSE Absent

\* `value || default` without the default
OrKeepsAbsent(value, default) == value

\* `value || default`, lines 397-399
Or(value, default) == IF value = Absent THEN default ELSE value

\* line 437
StylePhrase(style) ==
  IF style = "adventure"
  THEN "przygodowy (aktywne zwiedzanie, intensywny program)"
  ELSE "wypoczynkowy (spokojne tempo, relaks)"

\* line 438
TransportPhrase(transport) ==
  IF transport = "car" THEN "samochod"
  ELSE IF transport = "public" THEN "komunikacja publiczna"
  ELSE "piesze przemieszczanie sie"

\* line 439
BudgetPhrase(budget) ==
  IF budget = "economy" THEN "ekonomiczny (tanie opcje)"
  ELSE IF budget = "standard" THEN "standardowy (srednie ceny)"
  ELSE "luksusowy (premium opcje)"

\* A line of a prompt: its fixed text and the value interpolated into it.
Line(text, value) == [text |-> text, value |-> value]

PreferencesHeader == "PREFERENCJE UZYTKOWNIKA Z PROFILU:"

\* lines 439-467 with the test of line 440 reduced to `userPreferences`
PreferenceBlockForAnyList(userPreferences) ==
  IF userPreferences.present
  THEN <<Line(PreferencesHeader, "")>>
       \o [i \in 1..Len(userPreferences.tags) |-> Line("* ", userPreferences.tags[i])]
       \o <<Line("Uwzglednij te preferencje przy planowaniu", "")>>
  ELSE <<>>

\* lines 439-467: the block of the profile preferences, one bullet per tag
PreferenceBlock(userPreferences) ==
  IF userPreferences.present /\ Len(userPreferences.tags) > 0
  THEN <<Line(PreferencesHeader, "")>>
       \o [i \in 1..Len(userPreferences.tags) |-> Line("* ", userPreferences.tags[i])]
       \o <<Line("Uwzglednij te preferencje przy planowaniu", "")>>
  ELSE <<>>

\* A day and month the prompt resolves to a year.
DateExample(month, day, year) == [month |-> month, day |-> day, year |-> year]

\* lines 429-434: the dates without a year "ktore MUSISZ rozpoznac", each with
\* the year the prompt writes for it
DateExamples ==
  { DateExample(11, 15, 2025), DateExample(11, 18, 2025),
    DateExample(12, 20, 2025), DateExample(12, 21, 2025), DateExample(12, 22, 2025),
    DateExample(6, 5, 2026), DateExample(6, 12, 2026),
    DateExample(1, 10, 2026), DateExample(1, 11, 2026), DateExample(1, 12, 2026) }

\* lines 402-500: the system prompt, as the values interpolated into the rule
\* of lines 413-418, the dated examples and the lines of the text
SystemPrompt(style, transport, budget, userPreferences, clock) ==
  [today |-> clock.today,
   currentYear |-> clock.year,
   nextYear |-> clock.year + 1,
   examples |-> DateExamples,
   lines |-> <<Line("WAZNE - Wymagania dotyczace dat i numeracji dni:", ""),
               Line("KRYTYCZNE - Logika wyboru roku", ""),
               Line("Musisz wziac pod uwage nastepujace preferencje uzytkownika:", ""),
               Line("- Styl: ", StylePhrase(style)),
               Line("- Transport: ", TransportPhrase(transport)),
               Line("- Budzet: ", BudgetPhrase(budget))>>
             \o PreferenceBlock(userPreferences)
             \o <<Line("WAZNE - Wymagania dotyczace struktury danych:", ""),
                  Line("WAZNE - Wymagania dotyczace linkow do map (logistics.mapLink):", "")>>]

\* lines 503-507
UserPrompt(noteContent, style, transport, budget) ==
  [noteContent |-> noteContent, style |-> style, transport |-> transport, budget |-> budget]

\* lines 396-521: the parameters generatePlan gives to getStructuredData
Request(in) ==
  LET style == Or(OptionalField(in.options, "style"), "leisure")
      transport == Or(OptionalField(in.options, "transport"), "public")
      budget == Or(OptionalField(in.options, "budget"), "standard")
  IN [systemPrompt |-> SystemPrompt(style, transport, budget, in.userPreferences, in.clock),
      userPrompt |-> UserPrompt(in.noteContent, style, transport, budget),
      schemaName |-> "create_travel_plan",
      temperature |-> "0.7",
      max_tokens |-> 8000]

\* lines 415-418: the year the rule of the prompt gives a day and month
\* without a year: the current year unless the date has passed in it
RuleYear(systemPrompt, month, day) ==
  IF Earlier(Date(systemPrompt.currentYear, month, day), systemPrompt.today)
  THEN systemPrompt.nextYear
  ELSE systemPrompt.currentYear

\* ------------------------------------------------- validateNoteContent

\* line 372
MinWords == 10

\* A note's content: null, or a string as the sequence of its characters
\* ("w" a character of a word, " " and "\n" whitespace).
NullContent == [isNull |-> TRUE, chars |-> <<>>]
Text(chars) == [isNull |-> FALSE, chars |-> chars]
IsSpace(c) == c \in {" ", "\n"}

RECURSIVE Sentence(_, _)
\* n words, each followed by the separator
Sentence(n, separator) == IF n = 0 THEN <<>> ELSE <<"w", "w">> \o separator \o Sentence(n - 1, separator)

Contents ==
  { NullContent, Text(<<>>), Text(<<" ", " ", "\n">>),
    Text(<<"w">>),
    Text(Sentence(MinWords - 1, <<" ">>) \o <<"w">>),
    Text(Sentence(MinWords - 1, <<" ">>)),
    Text(Sentence(MinWords, <<" ">>)),
    Text(<<" ", "\n">> \o Sentence(MinWords - 1, <<" ", " ", "\n">>)),
    Text(<<"\n", " ">> \o Sentence(MinWords, <<"\n", " ", " ">>)),
    Text(Sentence(MinWords + 1, <<"\n">>)) }

RECURSIVE TrimStart(_)
TrimStart(s) == IF s # <<>> /\ IsSpace(Head(s)) THEN TrimStart(Tail(s)) ELSE s

RECURSIVE TrimEnd(_)
TrimEnd(s) == IF s # <<>> /\ IsSpace(s[Len(s)]) THEN TrimEnd(SubSeq(s, 1, Len(s) - 1)) ELSE s

\* String.prototype.trim, line 369
Trim(s) == TrimEnd(TrimStart(s))

RECURSIVE Split(_)
\* split(/\s+/), line 370: the pieces between the runs of whitespace, empty
\* pieces included
Split(s) ==
  IF \E i \in 1..Len(s) : IsSpace(s[i])
  THEN LET i == CHOOSE k \in 1..Len(s) : IsSpace(s[k]) /\ \A j \in 1..(k - 1) : ~IsSpace(s[j])
           rest == TrimStart(SubSeq(s, i, Len(s)))
       IN <<SubSeq(s, 1, i - 1)>> \o Split(rest)
  ELSE <<s>>

\* lines 362-373 with `>` in the place of `>=`
ValidateNoteContentStrict(content) ==
  IF content.isNull \/ content.chars = <<>>
  THEN FALSE
  ELSE Len(SelectSeq(Split(Trim(content.chars)), LAMBDA word : Len(word) > 0)) > MinWords

\* lines 362-373
ValidateNoteContent(content) ==
  IF content.isNull \/ content.chars = <<>>
  THEN FALSE
  ELSE LET words == SelectSeq(Split(Trim(content.chars)), LAMBDA word : Len(word) > 0)
       IN Len(words) >= MinWords

\* ------------------------------------------------------- the two routes

\* POST /api/notes/{noteId}/generate-plan and PUT /api/notes/{noteId}/travel-plan
Methods == {"POST", "PUT"}

\* An HTTP response: status, the Retry-After header ("" when absent), the
\* `error` and `message` of the body, the text interpolated into the message
\* and the plan of a successful answer.
NoResponse ==
  [status |-> 0, retryAfter |-> "", error |-> "", message |-> "", detail |-> "", plan |-> NoDoc]
Response(status, error, message) ==
  [NoResponse EXCEPT !.status = status, !.error = error, !.message = message]
PlanResponse(status, plan) == [NoResponse EXCEPT !.status = status, !.plan = plan]

\* the catch of the routes answering a rate limit like any other error of
\* the service
ErrorResponseNoRateLimit(error) ==
  IF error.kind = "AuthenticationError"
  THEN Response(500, "Configuration Error", "AI service configuration error. Please contact support.")
  ELSE IF error.kind = "BadRequestError"
  THEN [Response(400, "Bad Request", "Invalid request to AI service: ") EXCEPT !.detail = error.text]
  ELSE IF error.kind = "InvalidJSONResponseError"
  THEN Response(500, "AI Response Error", "AI service returned an invalid response. Please try again.")
  ELSE IF error.kind = "SchemaValidationError"
  THEN Response(500, "AI Response Error",
                "AI service returned data in an unexpected format. Please try again.")
  ELSE IF error.kind = "ServerError" \/ error.kind \in OpenRouterErrors
  THEN Response(503, "Service Unavailable",
                "AI service is currently unavailable. Please try again later.")
  ELSE Response(500, "Internal Server Error", "An unexpected error occurred")

\* the catch of generate-plan.ts, lines 206-303, and of travel-plan.ts, lines
\* 365-462: the chain of instanceof tests (every error of the service is an
\* OpenRouterError)
ErrorResponse(error) ==
  IF error.kind = "AuthenticationError"
  THEN Response(500, "Configuration Error", "AI service configuration error. Please contact support.")
  ELSE IF error.kind = "RateLimitError"
  THEN [Response(429, "Rate Limit Exceeded", "Too many requests. Please try again in a few moments.")
          EXCEPT !.retryAfter = "60"]
  ELSE IF error.kind = "BadRequestError"
  THEN [Response(400, "Bad Request", "Invalid request to AI service: ") EXCEPT !.detail = error.text]
  ELSE IF error.kind = "InvalidJSONResponseError"
  THEN Response(500, "AI Response Error", "AI service returned an invalid response. Please try again.")
  ELSE IF error.kind = "SchemaValidationError"
  THEN Response(500, "AI Response Error",
                "AI service returned data in an unexpected format. Please try again.")
  ELSE IF error.kind = "ServerError" \/ error.kind \in OpenRouterErrors
  THEN Response(503, "Service Unavailable",
                "AI service is currently unavailable. Please try again later.")
  ELSE Response(500, "Internal Server Error", "An unexpected error occurred")

\* The database as the routes see it: the note of the request (found or
\* not, and its content), the preferences of the user's profile and the rows
\* of travel_plans for the note, each with its content.
Db(found, content, preferences, plans) ==
  [found |-> found, content |-> content, preferences |-> preferences, plans |-> plans]
IdleDb == Db(FALSE, NullContent, <<>>, <<>>)

\* .upsert({ note_id, content }, { onConflict: "note_id" }), generate-plan.ts
\* lines 159-171: the row of the note is replaced, or inserted when there is none
Upsert(plans, content) ==
  IF plans = <<>> THEN <<content>> ELSE [i \in 1..Len(plans) |-> content]

\* .update({ content }).eq("note_id", noteId), travel-plan.ts lines 330-335
Update(plans, content) == [i \in 1..Len(plans) |-> content]

\* ------------------------------------------------------------- state

VARIABLES
  runtimeKey,    \* runtimeEnv?.OPENROUTER_API_KEY; "" stands for undefined or ""
  buildKey,      \* import.meta.env.OPENROUTER_API_KEY; "" as above
  maxRetries,    \* getStructuredData's attempt bound
  pc,            \* "start", "fetch" (awaiting fetch), "text" (awaiting
                 \* response.text()), "json" (awaiting response.json()), "done"
  apiKey,        \* OpenRouterService.apiKey
  attempt,       \* the loop variable of line 173
  lastError,     \* line 171
  requests,      \* fetch calls made so far
  inFlight,      \* fetch calls not yet settled
  status,        \* response.status of the current attempt, 0 before the answer
  body,          \* what became of await response.text(): "unread", "reading",
                 \* "read", "failed"
  errorText,     \* what await response.text() resolved with
  responseJson,  \* what fetchFromApi returned in the current attempt
  parsedJson,    \* JSON.parse's result in the current attempt
  validated,     \* the document given to safeParse in the current attempt
  ended,         \* how each finished attempt ended: "return" or the class thrown
  outcome,       \* the settled promise of generatePlan
  input,         \* generatePlan's arguments and the clock of the call
  calls,         \* the parameters of each getStructuredData call made so far
  db,            \* the database: the note, the profile and the rows of travel_plans
  reqs,          \* the HTTP requests being served by the two routes
  pipelines      \* getStructuredData calls running side by side

vars == <<runtimeKey, buildKey, maxRetries, pc, apiKey, attempt, lastError, requests,
          inFlight, status, body, errorText, responseJson, parsedJson, validated, ended,
          outcome, input, calls, db, reqs, pipelines>>

KeyValues == {"", "sk-or-v1"}

Pending == [state |-> "pending", data |-> NoDoc, error |-> NoError]
Returned(data) == [state |-> "returned", data |-> data, error |-> NoError]
Thrown(error) == [state |-> "thrown", data |-> NoDoc, error |-> error]

Init ==
  /\ runtimeKey \in KeyValues
  /\ buildKey \in KeyValues
  /\ maxRetries \in DefaultMaxRetries..MaxAttempts
  /\ pc = "start"
  /\ apiKey = ""
  /\ attempt = 0
  /\ lastError = NoError
  /\ requests = 0
  /\ inFlight = 0
  /\ status = 0
  /\ body = "unread"
  /\ errorText = ""
  /\ responseJson = NoResponseJson
  /\ parsedJson = NoDoc
  /\ validated = NoDoc
  /\ ended = <<>>
  /\ outcome = Pending
  /\ input = DefaultInput
  /\ calls = <<>>
  /\ db = IdleDb
  /\ reqs = <<>>
  /\ pipelines = <<>>

\* line 258 with the test of the error's class left out
ShouldRetryAnyError(error) ==
  attempt < maxRetries

\* line 258 with the retry switched off
ShouldRetryNever(error) ==
  FALSE

\* line 258 with `attempt <= maxRetries`
ShouldRetryOnLastAttempt(error) ==
  error.kind = "SchemaValidationError" /\ attempt <= maxRetries

\* line 258 at iteration n of the loop
ShouldRetryAt(error, n) ==
  error.kind = "SchemaValidationError" /\ n < maxRetries

\* line 258
ShouldRetry(error) == ShouldRetryAt(error, attempt)

\* The locals of one loop iteration.
Locals(st, bd, et, rj, pj, vd) ==
  [status |-> st, body |-> bd, errorText |-> et, responseJson |-> rj, parsedJson |-> pj,
   validated |-> vd]
Fresh == Locals(0, "unread", "", NoResponseJson, NoDoc, NoDoc)
Current == Locals(status, body, errorText, responseJson, parsedJson, validated)
Keep(cur) ==
  /\ status' = cur.status
  /\ body' = cur.body
  /\ errorText' = cur.errorText
  /\ responseJson' = cur.responseJson
  /\ parsedJson' = cur.parsedJson
  /\ validated' = cur.validated

\* the loop starting the attempt and, at once, a speculative second one
IterateSpeculative(n, last, cur, fl) ==
  /\ attempt' = n
  /\ IF n <= maxRetries
     THEN /\ Keep(Fresh)
          /\ requests' = requests + (IF n < maxRetries THEN 2 ELSE 1)
          /\ inFlight' = fl + (IF n < maxRetries THEN 2 ELSE 1)
          /\ pc' = "fetch"
          /\ outcome' = outcome
     ELSE /\ Keep(cur)
          /\ requests' = requests
          /\ inFlight' = fl
          /\ pc' = "done"
          /\ outcome' = Thrown(IF last # NoError THEN last ELSE Err("Error"))

\* The loop test of line 173 for iteration n, and what follows it: the body
\* up to the await of line 287, or the throw of line 270 when the loop is left.
\* `last` is lastError, `cur` the locals and `fl` the fetch calls in flight as
\* the test is made.
Iterate(n, last, cur, fl) ==
  /\ attempt' = n
  /\ IF n <= maxRetries
     THEN /\ Keep(Fresh)
          /\ requests' = requests + 1
          /\ inFlight' = fl + 1
          /\ pc' = "fetch"
          /\ outcome' = outcome
     ELSE /\ Keep(cur)
          /\ requests' = requests
          /\ inFlight' = fl
          /\ pc' = "done"
          /\ outcome' = Thrown(IF last # NoError THEN last ELSE Err("Error"))

\* the catch of lines 254-266 throwing, once the attempts are used up, the
\* exception lastError held before line 255 instead of the one just caught
CatchThrowsPrevious(error, cur, fl) ==
  /\ lastError' = error
  /\ ended' = Append(ended, error.kind)
  /\ IF ShouldRetry(error)
     THEN Iterate(attempt + 1, error, cur, fl)
     ELSE /\ Keep(cur)
          /\ pc' = "done"
          /\ outcome' = Thrown(IF lastError # NoError THEN lastError ELSE error)
          /\ inFlight' = fl
          /\ UNCHANGED <<attempt, requests>>

\* the catch of lines 254-266 for the exception that ended this attempt
Catch(error, cur, fl) ==
  /\ lastError' = error
  /\ ended' = Append(ended, error.kind)
  /\ IF ShouldRetry(error)
     THEN Iterate(attempt + 1, error, cur, fl)
     ELSE /\ Keep(cur)
          /\ pc' = "done"
          /\ outcome' = Thrown(error)
          /\ inFlight' = fl
          /\ UNCHANGED <<attempt, requests>>

\* line 253
Return(data, cur) ==
  /\ ended' = Append(ended, "return")
  /\ Keep(cur)
  /\ pc' = "done"
  /\ outcome' = Returned(data)
  /\ UNCHANGED <<attempt, lastError, requests, inFlight>>

\* An await inside the attempt: the call goes on at `at` with locals `cur`.
Await(at, cur, fl) ==
  /\ Keep(cur)
  /\ pc' = at
  /\ inFlight' = fl
  /\ UNCHANGED <<attempt, lastError, requests, ended, outcome>>

\* line 53: runtimeEnv?.OPENROUTER_API_KEY || import.meta.env.OPENROUTER_API_KEY
LoadApiKey(runtime, build) == IF runtime # "" THEN runtime ELSE build

\* the constructor without the check of lines 56-58
MissingApiKeyUnchecked(key) == FALSE

\* line 56: !this.apiKey
MissingApiKey(key) == key = ""

\* generatePlan up to its first await: the constructor (lines 50-59), the
\* prompts, getStructuredData's parameter checks and the first fetch.
GeneratePlan ==
  /\ pc = "start"
  /\ LET key == LoadApiKey(runtimeKey, buildKey)
     IN /\ apiKey' = key
        /\ calls' = IF MissingApiKey(key) THEN calls ELSE Append(calls, Request(input))
        /\ IF MissingApiKey(key)
           THEN /\ pc' = "done"
                /\ outcome' = Thrown(Err("Error"))
                /\ UNCHANGED <<attempt, requests, inFlight, status, body, errorText,
                               responseJson, parsedJson, validated>>
           ELSE Iterate(1, lastError, Current, inFlight)
  /\ UNCHANGED <<runtimeKey, buildKey, maxRetries, lastError, ended, input, db, reqs, pipelines>>

\* fetch settles (line 287): it rejects, or resolves with a status; lines
\* 296-310 follow.
FetchSettles ==
  /\ pc = "fetch"
  /\ \/ Catch(FetchCatch(Err("NetworkError")), Current, inFlight - 1)
     \/ \E st \in Statuses :
          LET cur == [Current EXCEPT !.status = st] IN
          IF Ok(st)
          THEN Await("json", cur, inFlight - 1)
          ELSE IF ReadsErrorText(st)
          THEN Await("text", [cur EXCEPT !.body = "reading"], inFlight - 1)
          ELSE Catch(FetchCatch(StatusError(st, "")), cur, inFlight - 1)
  /\ UNCHANGED <<runtimeKey, buildKey, maxRetries, apiKey, input, calls, db, reqs, pipelines>>

\* await response.text() settles (line 302): it rejects, or resolves with the
\* body; line 303 and the catch follow.
TextSettles ==
  /\ pc = "text"
  /\ \/ Catch(FetchCatch(Err("BodyReadError")), [Current EXCEPT !.body = "failed"], inFlight)
     \/ \E text \in BodyTexts :
          Catch(FetchCatch(StatusError(status, text)),
                [Current EXCEPT !.body = "read", !.errorText = text], inFlight)
  /\ UNCHANGED <<runtimeKey, buildKey, maxRetries, apiKey, input, calls, db, reqs, pipelines>>

\* await response.json() settles (line 313): it rejects, or resolves with the
\* parsed body; the rest of the try block of lines 178-253 and the catch follow.
JsonSettlesWith(jsons) ==
  /\ pc = "json"
  /\ \/ Catch(FetchCatch(Err("SyntaxError")), Current, inFlight)
     \/ \E json \in jsons :
          LET r == TryBlock(json)
              cur == [Current EXCEPT !.responseJson = json, !.parsedJson = r.parsedJson,
                                     !.validated = r.validated]
          IN IF r.error = NoError
             THEN Return(r.data, cur)
             ELSE Catch(r.error, cur, inFlight)
  /\ UNCHANGED <<runtimeKey, buildKey, maxRetries, apiKey, input, calls, db, reqs, pipelines>>

JsonSettles == JsonSettlesWith(ResponseJsons)

Next ==
  \/ GeneratePlan
  \/ FetchSettles
  \/ TextSettles
  \/ JsonSettles

Spec == Init /\ [][Next]_vars

\* ------------------------------------------------------------ properties

Done == pc = "done"

NotRetried ==
  { "AuthenticationError", "BadRequestError", "RateLimitError", "ServerError",
    "InvalidJSONResponseError" }

\* C1: an attempt is followed by another fetch only if it ended in
\* SchemaValidationError and its number is below the attempt bound; an attempt
\* that ends in one of the five other OpenRouter errors is the last one, the
\* call is over, the caller gets that error and no fetch is made after it.
C1_RetryOnlySchemaValidation ==
  \A i \in 1..Len(ended) :
    /\ requests > i => (ended[i] = "SchemaValidationError" /\ i < maxRetries)
    /\ ended[i] \in NotRetried =>
         /\ i = Len(ended)
         /\ Done
         /\ outcome.state = "thrown"
         /\ outcome.error.kind = ended[i]
         /\ requests = i
         /\ inFlight = 0

\* C1 witness: with attempts left, an attempt ended in InvalidJSONResponseError
\* after a retried validation failure, and the call is over.
C1_Witness ==
  /\ Done
  /\ maxRetries = 3
  /\ ended = <<"SchemaValidationError", "InvalidJSONResponseError">>
  /\ requests = 2

\* C2: with maxRetries = 1 no second fetch is ever made, and a validation
\* failure of the only attempt ends the call; with maxRetries = 2 a validation
\* failure of the first attempt is followed by the second fetch and no third,
\* and when the second attempt validates the call returns its document.
C2_OneAttemptOnceTwoAttemptsTwice ==
  /\ maxRetries = 1 =>
       /\ requests <= 1
       /\ (Done /\ ~MissingApiKey(apiKey)) => requests = 1
       /\ ended = <<"SchemaValidationError">> =>
            (Done /\ requests = 1 /\ outcome.state = "thrown"
               /\ outcome.error.kind = "SchemaValidationError")
  /\ (maxRetries = 2 /\ Len(ended) >= 1 /\ ended[1] = "SchemaValidationError") =>
       /\ requests = 2
       /\ (Len(ended) = 2 /\ ended[2] = "return") =>
            /\ Done
            /\ SafeParseSuccess(validated)
            /\ outcome = Returned(validated)

\* C2 witness: bound 2, first attempt failed validation, second returned a
\* plan with a day in it.
C2_Witness ==
  /\ maxRetries = 2
  /\ ended = <<"SchemaValidationError", "return">>
  /\ requests = 2
  /\ outcome.state = "returned"
  /\ Len(outcome.data.days) > 0

\* C3: at most maxRetries fetches are made; the (k+1)-th is made only after
\* each of the first k attempts ended in SchemaValidationError; and when all
\* maxRetries attempts failed validation the caller gets the
\* SchemaValidationError of the last one (the issues of the document that
\* attempt validated).
C3_BoundedAttempts ==
  /\ requests <= maxRetries
  /\ Len(ended) >= requests - 1
  /\ \A k \in 1..(requests - 1) : ended[k] = "SchemaValidationError"
  /\ (Len(ended) = maxRetries /\ \A i \in 1..maxRetries : ended[i] = "SchemaValidationError") =>
       /\ Done
       /\ attempt = maxRetries
       /\ requests = maxRetries
       /\ outcome = Thrown(SchemaValidationError(SafeParseIssues(validated)))

\* C3 witness: three attempts, all failed validation, the last one on a
\* document whose second day is at fault.
C3_Witness ==
  /\ Done
  /\ maxRetries = 3
  /\ requests = 3
  /\ ended = <<"SchemaValidationError", "SchemaValidationError", "SchemaValidationError">>
  /\ outcome.error.issues = Issues(FALSE, {2})

\* The call is over and the last attempt got an HTTP answer that is not 2xx.
EndedOnStatus == Done /\ status # 0 /\ ~Ok(status)

\* C4 as stated: every non-2xx status gives exactly one error kind, 401
\* AuthenticationError, 400 BadRequestError carrying the body text, 429
\* RateLimitError, any other ServerError, and the body is read only for 400.
C4_StatusMapsToOneKind ==
  /\ body # "unread" => status = 400
  /\ EndedOnStatus =>
       /\ outcome.state = "thrown"
       /\ status = 401 => outcome.error = AuthenticationError
       /\ status = 400 => (body = "read" /\ outcome.error = BadRequestError(errorText))
       /\ status = 429 => outcome.error = RateLimitError
       /\ status \notin {400, 401, 429} => outcome.error = ServerError

\* C4 amended: as C4, except that a 400 answer gives BadRequestError with the
\* body text when response.text() resolves and ServerError when it rejects.
C4_StatusMapsToKind ==
  /\ body # "unread" => status = 400
  /\ EndedOnStatus =>
       /\ outcome.state = "thrown"
       /\ status = 401 => outcome.error = AuthenticationError
       /\ status = 400 =>
            \/ body = "read" /\ outcome.error = BadRequestError(errorText)
            \/ body = "failed" /\ outcome.error = ServerError
       /\ status = 429 => outcome.error = RateLimitError
       /\ status \notin {400, 401, 429} => outcome.error = ServerError

\* C4 witness: a 400 answer whose body was read ended the call with a
\* BadRequestError carrying that body.
C4_Witness ==
  /\ Done
  /\ status = 400
  /\ body = "read"
  /\ outcome = Thrown(BadRequestError("provider: invalid schema"))

\* C5: an exception inside fetchFromApi that is none of the four HTTP error
\* classes (fetch rejects, response.text() rejects, response.json() rejects)
\* reaches the caller as ServerError; an exception of the four classes
\* reaches the caller as thrown, BadRequestError with its body text.
C5_FetchWrapsOtherErrors ==
  (Done /\ requests >= 1) =>
    /\ status = 0 => outcome = Thrown(ServerError)
    /\ body = "failed" => outcome = Thrown(ServerError)
    /\ (Ok(status) /\ responseJson = NoResponseJson) => outcome = Thrown(ServerError)
    /\ (status # 0 /\ ~Ok(status) /\ body # "failed") =>
         /\ outcome.error.kind \in
              {"AuthenticationError", "BadRequestError", "RateLimitError", "ServerError"}
         /\ outcome.error = [Err(outcome.error.kind) EXCEPT !.text = errorText]
         /\ (body = "read") = (outcome.error.kind = "BadRequestError")

\* C5 witness: a 2xx answer whose body is not JSON ended the call with
\* ServerError.
C5_Witness ==
  /\ Done
  /\ Ok(status)
  /\ responseJson = NoResponseJson
  /\ outcome = Thrown(ServerError)

\* C6: a 2xx answer whose first tool call has a type other than "function"
\* makes the call fail with ServerError.
C6_WrongToolTypeIsServerError ==
  (Done /\ Ok(status) /\ responseJson.shape \in {"toolCall", "noFunction"}
     /\ responseJson.type # "function") =>
    (outcome.state = "thrown" /\ outcome.error.kind = "ServerError")

\* C7: every failure getStructuredData surfaces is one of the six OpenRouter
\* error classes.
C7_FailuresAreTyped ==
  (Done /\ requests >= 1 /\ outcome.state = "thrown") =>
    outcome.error.kind \in OpenRouterErrors

\* C8: with no non-empty OPENROUTER_API_KEY in the runtime environment nor in
\* the build-time one, generatePlan fails in the constructor: the call is over
\* with the constructor's Error, and no fetch was ever made.
C8_MissingKeyFailsBeforeAnyRequest ==
  (runtimeKey = "" /\ buildKey = "" /\ pc # "start") =>
    /\ Done
    /\ outcome = Thrown(Err("Error"))
    /\ requests = 0
    /\ inFlight = 0
    /\ ended = <<>>

\* C8 witness: generatePlan ran with both keys missing.
C8_Witness ==
  /\ runtimeKey = ""
  /\ buildKey = ""
  /\ Done
  /\ outcome.state = "thrown"

\* The arguments of the last attempt's tool call did not parse.
ArgumentsUnparsed ==
  /\ responseJson.shape = "toolCall"
  /\ responseJson.type = "function"
  /\ JSONParseThrows(responseJson.arguments)

\* C9: when the tool call's arguments do not parse as JSON the attempt ends in
\* InvalidJSONResponseError carrying the raw text, nothing was cleaned up or
\* given to safeParse, and the call is over with that error: no fetch follows,
\* whatever the attempt bound.
C9_UnparsedArgumentsEndTheCall ==
  /\ ArgumentsUnparsed =>
       /\ Done
       /\ outcome = Thrown(InvalidJSONResponseError(responseJson.arguments))
       /\ parsedJson = NoDoc
       /\ validated = NoDoc
       /\ ended[Len(ended)] = "InvalidJSONResponseError"
  /\ \A i \in 1..Len(ended) :
       ended[i] = "InvalidJSONResponseError" =>
         (i = Len(ended) /\ Done /\ ArgumentsUnparsed /\ requests = i /\ inFlight = 0)

\* C9 witness: the first of three attempts got a cut-off arguments text.
C9_Witness ==
  /\ maxRetries = 3
  /\ attempt = 1
  /\ responseJson.shape = "toolCall"
  /\ responseJson.arguments.present
  /\ ~responseJson.arguments.complete
  /\ Len(responseJson.arguments.doc.days) = 1
  /\ Done

\* { afternoon: A } for the array A that day holds as activities
WrappedAsAfternoon(day) ==
  [day EXCEPT !.act = [t |-> "object", items |-> <<>>, keys |-> {"afternoon"},
                       per |-> [morning |-> <<>>, afternoon |-> day.act.items, evening |-> <<>>]]]

\* an element of `days` that is a day (an object, not a disclaimer object)
\* with activities as an array
IsArrayDay(day) ==
  day.t = "object" /\ day.act.t = "array" /\ ~(day.hasDisclaimer /\ ~day.hasDay)

\* C10: no element of `days` of a document given to safeParse has an array as
\* activities; every day of the parsed payload with an array A as activities
\* is in that document with activities { afternoon: A } and otherwise as it
\* was; and every element of that document is an element of the payload,
\* unchanged or so wrapped.
C10_NoArrayActivitiesAtValidation ==
  validated # NoDoc =>
    /\ \A i \in 1..Len(validated.days) : validated.days[i].act.t # "array"
    /\ \A j \in 1..Len(parsedJson.days) :
         IsArrayDay(parsedJson.days[j]) =>
           \E i \in 1..Len(validated.days) :
             validated.days[i] = WrappedAsAfternoon(parsedJson.days[j])
    /\ \A i \in 1..Len(validated.days) :
         \E j \in 1..Len(parsedJson.days) :
           \/ validated.days[i] = parsedJson.days[j]
           \/ /\ IsArrayDay(parsedJson.days[j])
              /\ validated.days[i] = WrappedAsAfternoon(parsedJson.days[j])

\* C10 witness: a payload whose second day held three activities as an array
\* was given to safeParse with them under `afternoon`.
C10_Witness ==
  /\ Len(parsedJson.days) = 2
  /\ parsedJson.days[2].hasDay
  /\ parsedJson.days[2].act.t = "array"
  /\ Len(parsedJson.days[2].act.items) = 3
  /\ Len(validated.days) = 2
  /\ validated.days[2].act.keys = {"afternoon"}
  /\ validated.days[2].act.per.afternoon = parsedJson.days[2].act.items

\* ------------------------------------- the clean-up and the validation alone

\* The longest `days` array of a payload given to the clean-up on its own.
MaxRepairDays == 3

\* Well-formed days for the sets of periods ElemPool has no day for.
PeriodDays ==
  { Day(6, ActivitiesObject(K, [NoPeriods EXCEPT !.morning = IF "morning" \in K THEN <<ActMuseum>> ELSE <<>>,
                                                 !.afternoon = IF "afternoon" \in K THEN <<ActMuseum>> ELSE <<>>,
                                                 !.evening = IF "evening" \in K THEN <<ActMuseum>> ELSE <<>>])) :
      K \in { S \in SUBSET Times :
                ~\E e \in ElemPool : e.hasDay /\ e.act.t = "object" /\ e.act.keys = S } }

RepairPool == ElemPool \cup PeriodDays

\* What JSON.parse (line 192) may return
RepairDocs ==
  { [NoDoc EXCEPT !.t = t] : t \in {"null", "scalar", "array"} }
  \cup { Object(FALSE, FALSE, <<>>, d[1], d[2]) : d \in TopDisclaimers }
  \cup { Object(TRUE, FALSE, <<>>, d[1], d[2]) : d \in TopDisclaimers }
  \cup { Plan(days, d[1], d[2]) : days \in SeqsUpTo(RepairPool, MaxRepairDays), d \in TopDisclaimers }

\* The only attempt of a call, after line 192 has parsed the arguments.
RepairInit ==
  /\ runtimeKey = "sk-or-v1"
  /\ buildKey = ""
  /\ maxRetries = DefaultMaxRetries
  /\ pc = "parsed"
  /\ apiKey = "sk-or-v1"
  /\ attempt = 1
  /\ lastError = NoError
  /\ requests = 1
  /\ inFlight = 0
  /\ status = 200
  /\ body = "unread"
  /\ errorText = ""
  /\ parsedJson \in RepairDocs
  /\ responseJson = ResponseJson("toolCall", "function", RawText(parsedJson, TRUE))
  /\ validated = NoDoc
  /\ ended = <<>>
  /\ outcome = Pending
  /\ input = DefaultInput
  /\ calls = <<Request(input)>>
  /\ db = IdleDb
  /\ reqs = <<>>
  /\ pipelines = <<>>

\* lines 197-244
CleanUp ==
  /\ pc = "parsed"
  /\ pc' = "cleaned"
  /\ validated' = CleanResponse(parsedJson)
  /\ UNCHANGED <<runtimeKey, buildKey, maxRetries, apiKey, attempt, lastError, requests,
                 inFlight, status, body, errorText, responseJson, parsedJson, ended, outcome,
                 input, calls, db, reqs, pipelines>>

\* lines 246-253 and the catch of lines 254-266
Validate ==
  /\ pc = "cleaned"
  /\ IF ~SafeParseSuccess(validated)
     THEN Catch(SchemaValidationError(SafeParseIssues(validated)), Current, inFlight)
     ELSE Return(validated, Current)
  /\ UNCHANGED <<runtimeKey, buildKey, maxRetries, apiKey, input, calls, db, reqs, pipelines>>

RepairNext ==
  \/ CleanUp
  \/ Validate

SpecRepair == RepairInit /\ [][RepairNext]_vars

\* The clean-up has been applied to parsedJson, and `validated` holds its result.
Repaired == pc \in {"cleaned", "done"}

\* an element of `days` with a `disclaimer` key and no `day` key
DisclaimerShaped(e) == e.t = "object" /\ e.hasDisclaimer /\ ~e.hasDay

\* an element of `days` with a `day` key and an object for `activities`
WellFormedDay(e) == e.t = "object" /\ e.hasDay /\ e.act.t = "object"

\* the sequence without its p-th element
Without(seq, p) == [j \in 1..(Len(seq) - 1) |-> IF j < p THEN seq[j] ELSE seq[j + 1]]

\* C11: when `days` holds an element with a disclaimer key and no day key, the
\* clean-up sets the top-level disclaimer to the disclaimer of such an element
\* and no such element is left in `days`; when it is the only one of its shape,
\* the top-level disclaimer is its text, and when the other elements are
\* well-formed days, `days` is left with exactly them, in their order (one
\* disclaimer element and two days: a `days` of length 2).
C11_DisclaimerHoisted ==
  (Repaired /\ HasDaysArray(parsedJson)) =>
    LET in == parsedJson.days
        shaped == { p \in 1..Len(in) : DisclaimerShaped(in[p]) }
    IN shaped # {} =>
         /\ validated.hasDisclaimer
         /\ validated.disclaimer \in { in[p].disclaimer : p \in shaped }
         /\ \A i \in 1..Len(validated.days) : ~DisclaimerShaped(validated.days[i])
         /\ \A p \in shaped :
              shaped = {p} =>
                /\ validated.disclaimer = in[p].disclaimer
                /\ (\A q \in (1..Len(in)) \ {p} : WellFormedDay(in[q])) =>
                     /\ validated.days = Without(in, p)
                     /\ Len(validated.days) = Len(in) - 1

\* one disclaimer element between two well-formed days, under a top-level
\* disclaimer of another text
C11_Witness ==
  /\ Repaired
  /\ HasDaysArray(parsedJson)
  /\ Len(parsedJson.days) = 3
  /\ WellFormedDay(parsedJson.days[1])
  /\ DisclaimerShaped(parsedJson.days[2])
  /\ WellFormedDay(parsedJson.days[3])
  /\ parsedJson.days[1] # parsedJson.days[3]
  /\ parsedJson.hasDisclaimer
  /\ parsedJson.disclaimer # parsedJson.days[2].disclaimer
  /\ validated.disclaimer = parsedJson.days[2].disclaimer
  /\ validated.days = <<parsedJson.days[1], parsedJson.days[3]>>

\* an element of `days` that is an object with at least one key
NonEmptyObject(e) ==
  e.t = "object" /\ (e.hasDay \/ e.hasDisclaimer \/ e.hasTitle \/ e.act.t # "absent")

\* the conditions of C12: a non-null object with at least one key that has no
\* disclaimer key or has a day key
Keepable(e) == NonEmptyObject(e) /\ (~e.hasDisclaimer \/ e.hasDay)

\* the element as the clean-up leaves it: its activities wrapped when they
\* are an array, otherwise the element itself
AfterRepair(e) == IF IsArrayDay(e) THEN WrappedAsAfternoon(e) ELSE e

\* C12: after the clean-up of a payload with a `days` array, `days` holds
\* exactly the input elements that are non-null objects with at least one key
\* and not disclaimer-only, each once, in their original relative order.
C12_KeptExactlyTheKeepable ==
  (Repaired /\ HasDaysArray(parsedJson)) =>
    LET kept == SelectSeq(parsedJson.days, Keepable)
    IN /\ \A i \in 1..Len(validated.days) : Keepable(validated.days[i])
       /\ Len(validated.days) = Len(kept)
       /\ \A i \in 1..Len(kept) : validated.days[i] = AfterRepair(kept[i])

\* a payload whose `days` mixes elements that are dropped for different
\* reasons with two different days that are kept
C12_Witness ==
  /\ Repaired
  /\ HasDaysArray(parsedJson)
  /\ Len(parsedJson.days) = 3
  /\ Len(validated.days) = 2
  /\ validated.days[1] # validated.days[2]
  /\ \E p \in 1..3 : ~Keepable(parsedJson.days[p]) /\ ~DisclaimerShaped(parsedJson.days[p])

\* the time-of-day keys of an element's activities object
PeriodKeys(e) == e.act.keys

\* C13: the clean-up adds no morning, afternoon or evening key to a day whose
\* activities is already an object: each kept day of that kind has, after the
\* clean-up, an activities object with the set of keys it had before.
C13_NoPeriodAdded ==
  (Repaired /\ HasDaysArray(parsedJson)) =>
    LET kept == SelectSeq(parsedJson.days, Keepable)
    IN \A i \in 1..Len(kept) :
         kept[i].act.t = "object" =>
           /\ i <= Len(validated.days)
           /\ validated.days[i].act.t = "object"
           /\ PeriodKeys(validated.days[i]) = PeriodKeys(kept[i])
           /\ validated.days[i].act.per = kept[i].act.per

\* days with no period, with one and with two periods went through the
\* clean-up together
C13_Witness ==
  /\ Repaired
  /\ HasDaysArray(parsedJson)
  /\ Len(validated.days) = 3
  /\ \A i \in 1..3 : parsedJson.days[i].act.t = "object"
  /\ PeriodKeys(validated.days[1]) = {}
  /\ PeriodKeys(validated.days[2]) = {"evening"}
  /\ PeriodKeys(validated.days[3]) = {"morning", "evening"}

\* a document with a top-level disclaimer whose `days` elements are all
\* objects with a day key and an object for activities
WellFormedDocument(doc) ==
  /\ HasDaysArray(doc)
  /\ doc.hasDisclaimer
  /\ \A i \in 1..Len(doc.days) : WellFormedDay(doc.days[i])

\* C14: the clean-up of a well-formed document gives a document equal to the
\* input: the same days in the same order, the same disclaimer, the same fields.
C14_WellFormedUnchanged ==
  (Repaired /\ WellFormedDocument(parsedJson)) => validated = parsedJson

\* a well-formed document of several days, one of them carrying a disclaimer
\* key of its own, went through the clean-up
C14_Witness ==
  /\ Repaired
  /\ WellFormedDocument(parsedJson)
  /\ Len(parsedJson.days) = 3
  /\ \E i \in 1..3 : parsedJson.days[i].hasDisclaimer
  /\ \E i \in 1..3 : PeriodKeys(parsedJson.days[i]) = {"evening"}
  /\ validated = parsedJson

\* C15: when the parsed payload is not an object, is null, has no `days` key
\* or has a `days` that is not an array, the clean-up changes nothing and
\* safeParse is given the parsed payload as it was.
C15_NoDaysArrayUntouched ==
  (Repaired /\ ~HasDaysArray(parsedJson)) => validated = parsedJson

\* safeParse was given, and rejected, an object whose `days` is not an array
C15_Witness ==
  /\ pc = "done"
  /\ parsedJson.t = "object"
  /\ parsedJson.hasDays
  /\ ~parsedJson.daysIsArray
  /\ validated = parsedJson
  /\ outcome.state = "thrown"
  /\ outcome.error.kind = "SchemaValidationError"

\* the four price categories of the specification
FourPriceCategories == {"free", "budget", "moderate", "expensive"}

\* some activity of the element has a priceCategory outside the four values
HasBadPrice(e) ==
  \E k \in e.act.keys : \E i \in 1..Len(e.act.per[k]) :
    e.act.per[k][i].priceCategory \notin FourPriceCategories

\* a day that is valid whatever periods its activities object has
OtherwiseValidDay(e) ==
  e.t = "object" /\ e.hasDay /\ e.hasTitle /\ e.act.t = "object" /\ ~HasBadPrice(e)

\* C16: the validation of a cleaned document with a `days` array fails with
\* SchemaValidationError when some activity's priceCategory is outside free,
\* budget, moderate, expensive or some element of `days` has no day field; it
\* returns the document when the document has a disclaimer and every day is
\* valid, a day with only `evening` included; and no returned document holds
\* an activity with a priceCategory outside the four values.
C16_ValidationVerdict ==
  (pc = "done" /\ HasDaysArray(validated)) =>
    LET n == Len(validated.days) IN
    /\ (\E i \in 1..n : HasBadPrice(validated.days[i]) \/ ~validated.days[i].hasDay) =>
         (outcome.state = "thrown" /\ outcome.error.kind = "SchemaValidationError")
    /\ (validated.hasDisclaimer /\ \A i \in 1..n : OtherwiseValidDay(validated.days[i])) =>
         outcome = Returned(validated)
    /\ outcome.state = "returned" =>
         \A i \in 1..Len(outcome.data.days) : ~HasBadPrice(outcome.data.days[i])

\* a document whose first day has only `evening` was returned
C16_Witness ==
  /\ pc = "done"
  /\ outcome.state = "returned"
  /\ Len(outcome.data.days) >= 2
  /\ PeriodKeys(outcome.data.days[1]) = {"evening"}

\* ---------------------------- generatePlan around a getStructuredData call

\* The values a getStructuredData call resolves with, and the exceptions it
\* rejects with (lines 253, 265 and 270).
StructuredData ==
  { Plan(<<>>, TRUE, "top"),
    Plan(<<Day(1, ActivitiesObject({"evening"}, [NoPeriods EXCEPT !.evening = <<ActMuseum>>])),
           Day(2, ActivitiesObject({"morning"}, [NoPeriods EXCEPT !.morning = <<ActMuseum>>]))>>,
         TRUE, "top") }
StructuredErrors == { Err(k) : k \in OpenRouterErrors \cup {"Error", "TypeError"} }

PlanInit ==
  /\ runtimeKey \in KeyValues
  /\ buildKey = ""
  /\ maxRetries = DefaultMaxRetries
  /\ pc = "start"
  /\ apiKey = ""
  /\ attempt = 0
  /\ lastError = NoError
  /\ requests = 0
  /\ inFlight = 0
  /\ status = 0
  /\ body = "unread"
  /\ errorText = ""
  /\ responseJson = NoResponseJson
  /\ parsedJson = NoDoc
  /\ validated = NoDoc
  /\ ended = <<>>
  /\ outcome = Pending
  /\ input \in Inputs
  /\ calls = <<>>
  /\ db = IdleDb
  /\ reqs = <<>>
  /\ pipelines = <<>>

\* generatePlan up to the await of line 511: the constructor (lines 50-59),
\* the prompts and the call of getStructuredData.
PlanStart ==
  /\ pc = "start"
  /\ LET key == LoadApiKey(runtimeKey, buildKey)
     IN /\ apiKey' = key
        /\ IF MissingApiKey(key)
           THEN /\ pc' = "done"
                /\ outcome' = Thrown(Err("Error"))
                /\ calls' = calls
           ELSE /\ pc' = "structured"
                /\ outcome' = outcome
                /\ calls' = Append(calls, Request(input))
  /\ UNCHANGED <<runtimeKey, buildKey, maxRetries, attempt, lastError, requests, inFlight,
                 status, body, errorText, responseJson, parsedJson, validated, ended, input, db, reqs, pipelines>>

\* the await of line 511 settling, in a generatePlan that calls again after a
\* SchemaValidationError
StructuredDataSettlesAndRetries ==
  /\ pc = "structured"
  /\ \/ \E data \in StructuredData :
          /\ validated' = data
          /\ pc' = "done"
          /\ outcome' = Returned(data)
          /\ UNCHANGED <<lastError, calls>>
     \/ \E error \in StructuredErrors :
          /\ lastError' = error
          /\ IF error.kind = "SchemaValidationError" /\ Len(calls) < 2
             THEN /\ calls' = Append(calls, Request(input))
                  /\ UNCHANGED <<pc, outcome>>
             ELSE /\ pc' = "done"
                  /\ outcome' = Thrown(error)
                  /\ calls' = calls
          /\ UNCHANGED validated
  /\ UNCHANGED <<runtimeKey, buildKey, maxRetries, apiKey, attempt, requests, inFlight, status,
                 body, errorText, responseJson, parsedJson, ended, input, db, reqs, pipelines>>

\* the await of line 511 settles: getStructuredData resolves with a value,
\* which line 524 returns, or rejects, and generatePlan rejects with it.
\* `validated` holds the value resolved with, lastError the exception.
StructuredDataSettles ==
  /\ pc = "structured"
  /\ \/ \E data \in StructuredData :
          /\ validated' = data
          /\ pc' = "done"
          /\ outcome' = Returned(data)
          /\ UNCHANGED lastError
     \/ \E error \in StructuredErrors :
          /\ lastError' = error
          /\ pc' = "done"
          /\ outcome' = Thrown(error)
          /\ UNCHANGED validated
  /\ UNCHANGED <<runtimeKey, buildKey, maxRetries, apiKey, attempt, requests, inFlight, status,
                 body, errorText, responseJson, parsedJson, ended, input, calls, db, reqs, pipelines>>

PlanNext ==
  \/ PlanStart
  \/ StructuredDataSettles

SpecPlan == PlanInit /\ [][PlanNext]_vars

\* the request built from the note text, the options and the preference tags
\* of the call
BuiltFromInput(request) ==
  /\ request.userPrompt.noteContent = input.noteContent
  /\ request.userPrompt.style \in Styles
  /\ (input.options.present /\ input.options.style # Absent) =>
       request.userPrompt.style = input.options.style
  /\ (input.options.present /\ input.options.transport # Absent) =>
       request.userPrompt.transport = input.options.transport
  /\ (input.options.present /\ input.options.budget # Absent) =>
       request.userPrompt.budget = input.options.budget
  /\ \A i \in 1..Len(input.userPreferences.tags) :
       \E j \in 1..Len(request.systemPrompt.lines) :
         request.systemPrompt.lines[j].value = input.userPreferences.tags[i]
  /\ request.schemaName = "create_travel_plan"

\* C17 as stated: every finished generatePlan call has invoked
\* getStructuredData exactly once, with one request built from the note text,
\* the options and the preference tags, and has returned the value
\* getStructuredData resolved with.
C17_InvokedExactlyOnce ==
  pc = "done" =>
    /\ Len(calls) = 1
    /\ BuiltFromInput(calls[1])
    /\ outcome.state = "returned" => outcome.data = validated

\* C17, amended: generatePlan invokes getStructuredData at most once per
\* call: not at all when the API key is missing (the constructor throws
\* first), otherwise exactly once, with one request built from the note text,
\* the options and the preference tags; it returns the value
\* getStructuredData resolved with unchanged and rejects with the exception
\* getStructuredData rejected with.
C17_InvokedOnceWhenConfigured ==
  /\ Len(calls) <= 1
  /\ \A i \in 1..Len(calls) : BuiltFromInput(calls[i])
  /\ (pc = "done" /\ apiKey = "") => (calls = <<>> /\ outcome = Thrown(Err("Error")))
  /\ (pc = "done" /\ apiKey # "") =>
       /\ Len(calls) = 1
       /\ validated # NoDoc => outcome = Returned(validated)
       /\ validated = NoDoc => outcome = Thrown(lastError)
  /\ pc = "structured" => (Len(calls) = 1 /\ outcome = Pending)

\* a call with options and two tags returned the two-day document
\* getStructuredData resolved with
C17_Witness ==
  /\ pc = "done"
  /\ Len(calls) = 1
  /\ input.options.present
  /\ Len(input.userPreferences.tags) = 2
  /\ outcome.state = "returned"
  /\ Len(outcome.data.days) = 2
  /\ outcome.data = validated

\* the lines of the system prompt of the call made
PromptLines == calls[1].systemPrompt.lines

\* the positions of the header of the profile preferences in the prompt
HeaderPositions ==
  { j \in 1..Len(PromptLines) : PromptLines[j].text = "PREFERENCJE UZYTKOWNIKA Z PROFILU:" }

\* C18: the system prompt holds the block headed "PREFERENCJE UZYTKOWNIKA Z
\* PROFILU" exactly when the list of preference tags is non-empty, and then
\* every tag follows the header as a bullet, in the order given; with an empty
\* or absent list the prompt has neither the header nor a bullet nor the
\* sentence closing the block.
C18_PreferenceBlockIffTags ==
  calls # <<>> =>
    LET tags == input.userPreferences.tags
        given == input.userPreferences.present /\ tags # <<>>
    IN /\ given <=> HeaderPositions # {}
       /\ given =>
            \E h \in HeaderPositions :
              /\ HeaderPositions = {h}
              /\ \A i \in 1..Len(tags) : PromptLines[h + i] = Line("* ", tags[i])
       /\ ~given =>
            \A j \in 1..Len(PromptLines) :
              /\ PromptLines[j].text # "* "
              /\ PromptLines[j].text # "Uwzglednij te preferencje przy planowaniu"

\* a call with two different tags, whose prompt has the block
C18_Witness ==
  /\ calls # <<>>
  /\ Len(input.userPreferences.tags) = 2
  /\ input.userPreferences.tags[1] # input.userPreferences.tags[2]
  /\ HeaderPositions # {}

\* a call with an empty list of tags, whose prompt has no block
C18_WitnessEmptyList ==
  /\ calls # <<>>
  /\ input.userPreferences.present
  /\ input.userPreferences.tags = <<>>
  /\ HeaderPositions = {}

\* the phrase of each value of each option
PhraseOf ==
  [ adventure |-> "przygodowy (aktywne zwiedzanie, intensywny program)",
    leisure |-> "wypoczynkowy (spokojne tempo, relaks)",
    car |-> "samochod",
    public |-> "komunikacja publiczna",
    walking |-> "piesze przemieszczanie sie",
    economy |-> "ekonomiczny (tanie opcje)",
    standard |-> "standardowy (srednie ceny)",
    luxury |-> "luksusowy (premium opcje)" ]

\* the value chosen for an option, `default` when the option is absent
Chosen(field, default) ==
  IF input.options.present /\ input.options[field] # Absent
  THEN input.options[field]
  ELSE default

\* the prompt has one line for the option, with the phrase of `chosen` and so
\* with the phrase of no other value of the option
OptionLine(label, values, chosen) ==
  \E j \in 1..Len(PromptLines) :
    /\ PromptLines[j].text = label
    /\ \A k \in 1..Len(PromptLines) : PromptLines[k].text = label => k = j
    /\ PromptLines[j].value = PhraseOf[chosen]
    /\ \A other \in values \ {chosen} : PromptLines[j].value # PhraseOf[other]

\* C19: for every style in {adventure, leisure, absent}, transport in {car,
\* public, walking, absent} and budget in {economy, standard, luxury, absent},
\* the line of each option in the system prompt holds the phrase of the value
\* chosen, or of the default (leisure, public, standard) when the option is
\* absent, and the phrase of no other value of that option.
C19_OptionPhrases ==
  calls # <<>> =>
    /\ OptionLine("- Styl: ", Styles, Chosen("style", "leisure"))
    /\ OptionLine("- Transport: ", Transports, Chosen("transport", "public"))
    /\ OptionLine("- Budzet: ", Budgets, Chosen("budget", "standard"))

\* a call with one option chosen away from its default and the others absent
C19_Witness ==
  /\ calls # <<>>
  /\ input.options.present
  /\ input.options.style = Absent
  /\ input.options.transport = "walking"
  /\ input.options.budget = Absent
  /\ \E j \in 1..Len(PromptLines) : PromptLines[j] = Line("- Transport: ", "piesze przemieszczanie sie")
  /\ \E j \in 1..Len(PromptLines) : PromptLines[j] = Line("- Budzet: ", "standardowy (srednie ceny)")

\* days and months a note may name without a year
DayMonths == { <<11, 15>>, <<12, 20>>, <<6, 5>>, <<1, 10>>, <<3, 1>>, <<12, 31>> }

\* the year of the claim for month m and day d: the year of today when that
\* date in it is today or later, the next year otherwise
ExpectedYear(today, m, d) ==
  IF ~Earlier(Date(today[1], m, d), today) THEN today[1] ELSE today[1] + 1

\* the years the system prompt gives for month m and day d: the one of its
\* rule and the ones of its examples for that date
PromptYears(systemPrompt, m, d) ==
  { RuleYear(systemPrompt, m, d) }
  \cup { e.year : e \in { x \in systemPrompt.examples : x.month = m /\ x.day = d } }

\* For the reference date 2025-11-05 the prompt gives each day and month the
\* year of the claim: Nov 15 2025, Jun 5 2026, Jan 10 2026.
YearsAgreeAtReferenceDate ==
  (calls # <<>> /\ input.clock = Clock(Date(2025, 11, 5), 2025)) =>
    /\ PromptYears(calls[1].systemPrompt, 11, 15) = {2025}
    /\ PromptYears(calls[1].systemPrompt, 6, 5) = {2026}
    /\ PromptYears(calls[1].systemPrompt, 1, 10) = {2026}
    /\ \A dm \in DayMonths :
         PromptYears(calls[1].systemPrompt, dm[1], dm[2]) = { ExpectedYear(input.clock.today, dm[1], dm[2]) }

\* C20: for every day and month without a year, the year the system prompt
\* gives is the current year when that date in the current year is today or
\* later, and the next year otherwise (for today = 2025-11-05: Nov 15 is
\* 2025, Jun 5 and Jan 10 are 2026).
C20_YearInference ==
  calls # <<>> =>
    \A dm \in DayMonths :
      PromptYears(calls[1].systemPrompt, dm[1], dm[2]) = { ExpectedYear(input.clock.today, dm[1], dm[2]) }

\* the attempts whose transport call has been started and has not finished
OpenAttempts == requests - Len(ended)

\* C21: the attempts of one call are strictly sequential: at no time are two
\* transport calls in flight or two attempts open, and a transport call is
\* started only when no attempt is open and, unless it is the first, the
\* attempt before it has just finished with a SchemaValidationError.
C21_AttemptsSequential ==
  /\ [](inFlight <= 1 /\ OpenAttempts \in {0, 1})
  /\ [][requests' # requests =>
          /\ requests' = requests + 1
          /\ inFlight' = 1
          /\ Len(ended') = requests
          /\ attempt' = requests'
          /\ requests > 0 =>
               /\ ended' = Append(ended, "SchemaValidationError")
               /\ pc = "json"]_vars

\* the second transport call is in flight after the first attempt failed
\* validation
C21_Witness ==
  /\ pc = "fetch"
  /\ requests = 2
  /\ inFlight = 1
  /\ ended = <<"SchemaValidationError">>

\* One body of each kind the provider answers a request with.
SampleResponseJsons ==
  { ResponseJson("noChoices", "", RawUndefined),
    ResponseJson("noFunction", "function", RawUndefined),
    ResponseJson("toolCall", "code_interpreter", RawUndefined),
    ResponseJson("toolCall", "function", RawUndefined),
    ResponseJson("toolCall", "function", RawText(Plan(<<>>, TRUE, "top"), FALSE)),
    ResponseJson("toolCall", "function", RawText([NoDoc EXCEPT !.t = "null"], TRUE)),
    ResponseJson("toolCall", "function", RawText(Plan(<<ElemNull>>, FALSE, ""), TRUE)),
    ResponseJson("toolCall", "function",
                 RawText(Plan(<<DisclaimerOnly("first"), Day(1, ActivitiesArray(<<ActMuseum>>))>>,
                              FALSE, ""), TRUE)),
    ResponseJson("toolCall", "function",
                 RawText(Plan(<<Day(1, ActivitiesObject({}, NoPeriods))>>, TRUE, "top"), TRUE)) }

JsonSettlesSample == JsonSettlesWith(SampleResponseJsons)

LiveNext ==
  \/ GeneratePlan
  \/ FetchSettles
  \/ TextSettles
  \/ JsonSettlesSample

\* The call with every step taken in the end: generatePlan runs to its first
\* await, and every fetch, response.text() and response.json() settles.
SpecLive ==
  /\ Init
  /\ [][LiveNext]_vars
  /\ WF_vars(GeneratePlan)
  /\ WF_vars(FetchSettles)
  /\ WF_vars(TextSettles)
  /\ WF_vars(JsonSettlesSample)

\* getStructuredData has been called: the constructor found a key
Called == pc # "start" /\ apiKey # ""

\* C26: when every transport call settles, every getStructuredData call ends;
\* it ends by returning a document the schema accepts or by the throw of the
\* catch inside the loop, for the exception of its last attempt; the loop is
\* never left by its test, so the throw after it is not executed, whatever
\* the attempt bound (1 or more).
C26_TerminatesInsideLoop ==
  /\ (Called ~> Done)
  /\ [](Called => attempt \in 1..maxRetries)
  /\ []((Called /\ Done) =>
          /\ Len(ended) = attempt
          /\ outcome.state = "returned" =>
               (ended[attempt] = "return" /\ SafeParseSuccess(outcome.data))
          /\ outcome.state = "thrown" =>
               (ended[attempt] = outcome.error.kind /\ outcome.error = lastError))

\* the last attempt the bound allows failed validation, and the call ended
\* with the throw of the catch
C26_Witness ==
  /\ Called
  /\ Done
  /\ maxRetries = 2
  /\ attempt = 2
  /\ ended = <<"SchemaValidationError", "SchemaValidationError">>
  /\ outcome.state = "thrown"

\* the positions of the disclaimer-shaped elements of the parsed `days`
ShapedPositions == { p \in 1..Len(parsedJson.days) : DisclaimerShaped(parsedJson.days[p]) }

\* C30: with several disclaimer-shaped elements in `days`, the clean-up sets
\* the top-level disclaimer to the text of the first of them in array order,
\* whatever top-level disclaimer the payload had, and none of them stays in
\* `days`; with no such element the top-level disclaimer stays as it was,
\* present or absent.
C30_FirstDisclaimerWins ==
  (Repaired /\ HasDaysArray(parsedJson)) =>
    IF ShapedPositions # {}
    THEN LET first == CHOOSE p \in ShapedPositions : \A q \in ShapedPositions : p <= q
         IN /\ validated.hasDisclaimer
            /\ validated.disclaimer = parsedJson.days[first].disclaimer
            /\ \A i \in 1..Len(validated.days) : ~DisclaimerShaped(validated.days[i])
            /\ Len(validated.days) <= Len(parsedJson.days) - Cardinality(ShapedPositions)
    ELSE /\ validated.hasDisclaimer = parsedJson.hasDisclaimer
         /\ validated.disclaimer = parsedJson.disclaimer

\* a payload with a top-level disclaimer and two disclaimer-shaped elements
\* of different texts, the later-named text first
C30_Witness ==
  /\ Repaired
  /\ HasDaysArray(parsedJson)
  /\ parsedJson.hasDisclaimer
  /\ Cardinality(ShapedPositions) = 2
  /\ Len(parsedJson.days) = 3
  /\ parsedJson.days[1].disclaimer = "second"
  /\ parsedJson.days[3].disclaimer = "first"
  /\ validated.disclaimer = "second"
  /\ Len(validated.days) = 1

\* C29: in the system prompt of every call the year named as the current
\* year is the year of the date printed as today, and the year named as the
\* next year is that year plus one, at every instant and under every offset
\* of the server's time zone.
C29_YearsAgreeWithToday ==
  \A i \in 1..Len(calls) :
    /\ calls[i].systemPrompt.currentYear = calls[i].systemPrompt.today[1]
    /\ calls[i].systemPrompt.nextYear = calls[i].systemPrompt.today[1] + 1

\* ------------------------------ the routes around a generatePlan call

\* The requests served side by side, all for the same note of the same user.
Requests == {1, 2}

\* What a generatePlan call settles with: a validated plan, or an exception
\* of getStructuredData or of the constructor; a BadRequestError carries the
\* text of the provider's answer.
PlanOutcomes ==
  { Returned(data) : data \in StructuredData }
  \cup { Thrown(error) : error \in StructuredErrors }
  \cup { Thrown(BadRequestError(text)) : text \in BodyTexts }

\* A request: its route, where its handler stands ("start", then awaiting
\* "note", "profile", "existing", "generate", "write", then "done"), the
\* handler's locals, the generatePlan calls it made, the exception its catch
\* caught, whether its write created or replaced the row, and its response.
NewRequest(method) ==
  [method |-> method, pc |-> "start", userPreferences |-> <<>>, isUpdate |-> FALSE,
   generatePlanCalls |-> 0, planContent |-> NoDoc, error |-> NoError, wrote |-> "",
   response |-> NoResponse]

RouteInit ==
  /\ runtimeKey = "sk-or-v1"
  /\ buildKey = ""
  /\ maxRetries = DefaultMaxRetries
  /\ pc = "start"
  /\ apiKey = ""
  /\ attempt = 0
  /\ lastError = NoError
  /\ requests = 0
  /\ inFlight = 0
  /\ status = 0
  /\ body = "unread"
  /\ errorText = ""
  /\ responseJson = NoResponseJson
  /\ parsedJson = NoDoc
  /\ validated = NoDoc
  /\ ended = <<>>
  /\ outcome = Pending
  /\ input = DefaultInput
  /\ calls = <<>>
  /\ db \in { Db(FALSE, NullContent, <<>>, <<>>) }
            \cup { Db(TRUE, content, <<"historia">>, plans) :
                     content \in Contents, plans \in {<<>>, <<Plan(<<>>, TRUE, "stored")>>} }
  /\ reqs \in [Requests -> { NewRequest(method) : method \in Methods }]
  /\ pipelines = <<>>

\* the handler of request r goes on at `at` with its locals changed to `req`
Goto(r, req, at) == reqs' = [reqs EXCEPT ![r] = [req EXCEPT !.pc = at]]

\* the handler of request r returns `response`
Respond(r, req, response) ==
  reqs' = [reqs EXCEPT ![r] = [req EXCEPT !.pc = "done", !.response = response]]

RouteIdle ==
  UNCHANGED <<runtimeKey, buildKey, maxRetries, pc, apiKey, attempt, lastError, requests,
              inFlight, status, body, errorText, responseJson, parsedJson, validated, ended,
              outcome, input, calls, pipelines>>

\* generate-plan.ts lines 50-95, travel-plan.ts lines 190-265: the checks of
\* the note id, the body and (PUT) the confirm flag, up to the query of the note
RouteStart(r) ==
  /\ reqs[r].pc = "start"
  /\ \E valid \in BOOLEAN :
       IF valid
       THEN Goto(r, reqs[r], "note")
       ELSE Respond(r, reqs[r], Response(400, "Bad Request", "Invalid request"))
  /\ UNCHANGED db
  /\ RouteIdle

\* generate-plan.ts lines 96-130, travel-plan.ts lines 259-290: the note is
\* read, and its content checked
NoteRead(r) ==
  /\ reqs[r].pc = "note"
  /\ IF ~db.found
     THEN Respond(r, reqs[r],
                  Response(404, "Not Found", "Note not found or you don't have access to it"))
     ELSE IF ~ValidateNoteContent(db.content)
     THEN Respond(r, reqs[r],
                  Response(400, "Bad Request",
                           "Note content must contain at least 10 words to generate a travel plan"))
     ELSE Goto(r, reqs[r], "profile")
  /\ UNCHANGED db
  /\ RouteIdle

\* generate-plan.ts lines 130-147, travel-plan.ts lines 291-308: the profile
\* is read, and the query for an existing plan sent
ProfileRead(r) ==
  /\ reqs[r].pc = "profile"
  /\ Goto(r, [reqs[r] EXCEPT !.userPreferences = db.preferences], "existing")
  /\ UNCHANGED db
  /\ RouteIdle

\* generate-plan.ts lines 147-156, travel-plan.ts lines 308-327: the existing
\* plan is read, and generatePlan called
ExistingRead(r) ==
  /\ reqs[r].pc = "existing"
  /\ LET existingPlan == db.plans # <<>>
     IN IF reqs[r].method = "PUT" /\ ~existingPlan
        THEN Respond(r, reqs[r],
                     Response(404, "Not Found", "Travel plan not found for this note."))
        ELSE Goto(r, [reqs[r] EXCEPT !.isUpdate = existingPlan,
                                     !.generatePlanCalls = @ + 1], "generate")
  /\ UNCHANGED db
  /\ RouteIdle

\* generatePlan settles, with the write outside the try block: an exception is
\* noted and the handler goes on to the write
GenerateSettlesThenWrites(r) ==
  /\ reqs[r].pc = "generate"
  /\ \E settled \in PlanOutcomes :
       IF settled.state = "returned"
       THEN Goto(r, [reqs[r] EXCEPT !.planContent = settled.data], "write")
       ELSE Goto(r, [reqs[r] EXCEPT !.error = settled.error], "write")
  /\ UNCHANGED db
  /\ RouteIdle

\* generatePlan settles: its plan goes to the write of generate-plan.ts lines
\* 159-171 or travel-plan.ts lines 330-335, its exception to the catch
GenerateSettles(r) ==
  /\ reqs[r].pc = "generate"
  /\ \E settled \in PlanOutcomes :
       IF settled.state = "returned"
       THEN Goto(r, [reqs[r] EXCEPT !.planContent = settled.data], "write")
       ELSE Respond(r, [reqs[r] EXCEPT !.error = settled.error], ErrorResponse(settled.error))
  /\ UNCHANGED db
  /\ RouteIdle

\* the write settles: generate-plan.ts lines 173-204, travel-plan.ts lines
\* 337-364
WriteSettles(r) ==
  /\ reqs[r].pc = "write"
  /\ \/ /\ Respond(r, reqs[r],
                    Response(500, "Internal Server Error",
                             IF reqs[r].method = "POST" THEN "Failed to save travel plan"
                                                        ELSE "Failed to update travel plan"))
        /\ UNCHANGED db
     \/ IF reqs[r].method = "POST"
        THEN /\ db' = [db EXCEPT !.plans = Upsert(db.plans, reqs[r].planContent)]
             /\ Respond(r, [reqs[r] EXCEPT !.wrote = IF db.plans = <<>> THEN "created" ELSE "replaced"],
                        PlanResponse(IF reqs[r].isUpdate THEN 200 ELSE 201, reqs[r].planContent))
        ELSE IF db.plans = <<>>
        THEN /\ Respond(r, reqs[r], Response(500, "Internal Server Error", "Failed to update travel plan"))
             /\ UNCHANGED db
        ELSE /\ db' = [db EXCEPT !.plans = Update(db.plans, reqs[r].planContent)]
             /\ Respond(r, [reqs[r] EXCEPT !.wrote = "replaced"],
                        PlanResponse(200, reqs[r].planContent))
  /\ RouteIdle

RouteNext ==
  \E r \in Requests :
    \/ RouteStart(r)
    \/ NoteRead(r)
    \/ ProfileRead(r)
    \/ ExistingRead(r)
    \/ GenerateSettles(r)
    \/ WriteSettles(r)

SpecRoute == RouteInit /\ [][RouteNext]_vars

\* the status each error kind of the pipeline is answered with
StatusOfKind ==
  [ RateLimitError |-> 429, BadRequestError |-> 400, InvalidJSONResponseError |-> 500,
    SchemaValidationError |-> 500, ServerError |-> 503, AuthenticationError |-> 500 ]

\* the messages that ask to try again
TryAgainMessages ==
  { "AI service returned an invalid response. Please try again.",
    "AI service returned data in an unexpected format. Please try again." }

\* C23: on both routes, a request whose generatePlan threw an error of the
\* pipeline is answered with the status of that kind: RateLimitError 429 with
\* a Retry-After header (and no other kind with that header), BadRequestError
\* 400, InvalidJSONResponseError and SchemaValidationError 500 with a
\* try-again message, ServerError 503, AuthenticationError 500; never 2xx.
C23_ErrorKindToResponse ==
  \A r \in DOMAIN reqs :
    reqs[r].error.kind \in OpenRouterErrors =>
      LET kind == reqs[r].error.kind
          response == reqs[r].response
      IN /\ reqs[r].pc = "done"
         /\ response.status = StatusOfKind[kind]
         /\ (response.retryAfter # "") <=> (kind = "RateLimitError")
         /\ kind \in {"InvalidJSONResponseError", "SchemaValidationError"} =>
              response.message \in TryAgainMessages
         /\ response.status \notin 200..299
         /\ response.plan = NoDoc

\* a POST answered 429 with Retry-After next to a PUT answered 503
C23_Witness ==
  /\ reqs[1].method = "POST"
  /\ reqs[1].error.kind = "RateLimitError"
  /\ reqs[1].response.status = 429
  /\ reqs[1].response.retryAfter = "60"
  /\ reqs[2].method = "PUT"
  /\ reqs[2].error.kind = "ServerError"
  /\ reqs[2].response.status = 503

\* C24: no response of either route holds the text of an error body the
\* provider answered with, whatever error of the pipeline ended the request,
\* BadRequestError included.
C24_NoProviderTextInResponse ==
  \A r \in DOMAIN reqs :
    \A text \in BodyTexts \ {""} :
      /\ reqs[r].response.detail # text
      /\ reqs[r].response.message # text
      /\ reqs[r].response.error # text

\* the number of maximal runs of non-whitespace characters of s
TokenCount(s) ==
  Cardinality({ i \in 1..Len(s) : ~IsSpace(s[i]) /\ (i = 1 \/ IsSpace(s[i - 1])) })

ContentTooShort == "Note content must contain at least 10 words to generate a travel plan"

\* C25: validateNoteContent is true exactly when the content is a string of
\* at least 10 whitespace-separated non-empty tokens (null, empty and
\* whitespace-only content give false); for a note whose content fails, POST
\* generate-plan and PUT travel-plan never call generatePlan and answer 400.
C25_ContentCheck ==
  /\ ValidateNoteContent(db.content) <=>
       (~db.content.isNull /\ TokenCount(db.content.chars) >= 10)
  /\ (db.found /\ (db.content.isNull \/ TokenCount(db.content.chars) < 10)) =>
       \A r \in DOMAIN reqs :
         /\ reqs[r].generatePlanCalls = 0
         /\ reqs[r].pc \in {"start", "note", "done"}
         /\ reqs[r].pc = "done" => reqs[r].response.status = 400
         /\ reqs[r].wrote = ""

\* a note of nine words between runs of spaces and newlines, for which a POST
\* and a PUT were both answered 400 for its content
C25_Witness ==
  /\ db.found
  /\ ~db.content.isNull
  /\ TokenCount(db.content.chars) = 9
  /\ \E i \in 1..(Len(db.content.chars) - 1) :
       IsSpace(db.content.chars[i]) /\ IsSpace(db.content.chars[i + 1])
  /\ \E r, s \in DOMAIN reqs :
       /\ reqs[r].method = "POST" /\ reqs[s].method = "PUT"
       /\ reqs[r].response = Response(400, "Bad Request", ContentTooShort)
       /\ reqs[s].response = Response(400, "Bad Request", ContentTooShort)

\* request r holds a validated plan that generatePlan returned to it
HoldsValidatedPlan(r) ==
  /\ reqs[r].error = NoError
  /\ reqs[r].planContent \in StructuredData
  /\ reqs[r].generatePlanCalls = 1

\* C27: a request of POST generate-plan or PUT travel-plan whose generatePlan
\* threw never writes to travel_plans, and every step that changes the stored
\* plan is the write of a request to which generatePlan returned a validated
\* plan, storing that plan.
C27_WriteOnlyAfterPlan ==
  /\ [](\A r \in DOMAIN reqs : reqs[r].error # NoError => reqs[r].wrote = "" /\ reqs[r].pc = "done")
  /\ [][ db' # db =>
           \E r \in DOMAIN reqs :
             /\ reqs[r].pc = "write"
             /\ HoldsValidatedPlan(r)
             /\ reqs'[r].pc = "done"
             /\ reqs'[r].wrote # ""
             /\ db'.plans = <<reqs[r].planContent>>
             /\ \A s \in DOMAIN reqs \ {r} : reqs'[s] = reqs[s] ]_vars

\* the note has the plan it had at first although a POST and a PUT for it
\* both ended with an error of generatePlan
C27_Witness ==
  /\ db.plans = <<Plan(<<>>, TRUE, "stored")>>
  /\ \E r, s \in DOMAIN reqs :
       /\ reqs[r].method = "POST" /\ reqs[s].method = "PUT"
       /\ reqs[r].pc = "done" /\ reqs[s].pc = "done"
       /\ reqs[r].error # NoError /\ reqs[s].error # NoError
       /\ reqs[r].generatePlanCalls = 1 /\ reqs[s].generatePlanCalls = 1

\* C28: a POST generate-plan whose write went through is answered 201 when
\* the write created the note's travel plan and 200 when it replaced one,
\* under every interleaving of the requests; the note never has more than
\* one travel plan, and has one after such a write.
C28_StatusTellsCreatedFromReplaced ==
  /\ Len(db.plans) <= 1
  /\ \A r \in DOMAIN reqs :
       (reqs[r].method = "POST" /\ reqs[r].wrote # "") =>
         /\ Len(db.plans) = 1
         /\ reqs[r].response.status = (IF reqs[r].wrote = "created" THEN 201 ELSE 200)

\* ------------------------------------------ generatePlan calls side by side

\* The calls in progress at once. Each holds what getStructuredData and its
\* OpenRouterService instance hold for one call: the instance's apiKey, the
\* loop's attempt and lastError, the payload JSON.parse gave (parsedJson, which
\* the clean-up changes in place) and the document handed to safeParse, the
\* answers the provider gave to this call's requests, and its outcome. The
\* environment and maxRetries are the same for every call.
Calls == {1, 2}

NewCall ==
  [pc |-> "start", apiKey |-> "", attempt |-> 0, lastError |-> NoError, answers |-> <<>>,
   parsedJson |-> NoDoc, validated |-> NoDoc, outcome |-> Pending]

\* What the provider answered to one request: which await rejected ("" when
\* none did), the status, the error body and the JSON body.
Answer(rejected, st, text, json) ==
  [rejected |-> rejected, status |-> st, text |-> text, json |-> json]

PairStatuses == {200, 400, 429, 503}

PairResponseJsons ==
  { ResponseJson("noChoices", "", RawUndefined),
    ResponseJson("toolCall", "function", RawText(Plan(<<>>, TRUE, "top"), TRUE)),
    ResponseJson("toolCall", "function", RawText(Plan(<<ElemNull>>, FALSE, ""), TRUE)),
    ResponseJson("toolCall", "function",
                 RawText(Plan(<<DisclaimerOnly("first"), Day(1, ActivitiesArray(<<ActMuseum>>))>>,
                              FALSE, ""), TRUE)) }

PairInit ==
  /\ runtimeKey \in KeyValues
  /\ buildKey = ""
  /\ maxRetries \in DefaultMaxRetries..(DefaultMaxRetries + 1)
  /\ pc = "start"
  /\ apiKey = ""
  /\ attempt = 0
  /\ lastError = NoError
  /\ requests = 0
  /\ inFlight = 0
  /\ status = 0
  /\ body = "unread"
  /\ errorText = ""
  /\ responseJson = NoResponseJson
  /\ parsedJson = NoDoc
  /\ validated = NoDoc
  /\ ended = <<>>
  /\ outcome = Pending
  /\ input = DefaultInput
  /\ calls = <<>>
  /\ db = IdleDb
  /\ reqs = <<>>
  /\ pipelines = [c \in Calls |-> NewCall]

\* the try block and fetchFromApi (lines 176-253, 285-328) for one answer
AnswerResult(answer) ==
  LET Failed(error) == AttemptResult(FetchCatch(error), NoDoc, NoDoc, NoDoc)
  IN IF answer.rejected = "fetch" THEN Failed(Err("NetworkError"))
     ELSE IF ~Ok(answer.status)
     THEN IF ReadsErrorText(answer.status) /\ answer.rejected = "text"
          THEN Failed(Err("BodyReadError"))
          ELSE Failed(StatusError(answer.status, answer.text))
     ELSE IF answer.rejected = "json" THEN Failed(Err("SyntaxError"))
     ELSE TryBlock(answer.json)

\* The call p once its attempt has its answer: the rest of the try block, the
\* catch of lines 254-266 and the loop test of line 173.
AfterAttempt(p) ==
  LET r == AnswerResult(p.answers[Len(p.answers)])
      q == [p EXCEPT !.parsedJson = r.parsedJson, !.validated = r.validated]
  IN IF r.error = NoError
     THEN [q EXCEPT !.pc = "done", !.outcome = Returned(r.data)]
     ELSE IF ~ShouldRetryAt(r.error, p.attempt)
     THEN [q EXCEPT !.pc = "done", !.lastError = r.error, !.outcome = Thrown(r.error)]
     ELSE IF p.attempt + 1 <= maxRetries
     THEN [p EXCEPT !.pc = "fetch", !.lastError = r.error, !.attempt = @ + 1,
                    !.parsedJson = NoDoc, !.validated = NoDoc]
     ELSE [q EXCEPT !.pc = "done", !.lastError = r.error, !.outcome = Thrown(r.error)]

\* the call c goes on as p; nothing else changes
PairStep(c, p) ==
  /\ pipelines' = [pipelines EXCEPT ![c] = p]
  /\ UNCHANGED <<runtimeKey, buildKey, maxRetries, pc, apiKey, attempt, lastError, requests,
                 inFlight, status, body, errorText, responseJson, parsedJson, validated, ended,
                 outcome, input, calls, db, reqs>>

\* the call c with its last answer changed to `answer`
Answered(c, answer) ==
  [pipelines[c] EXCEPT !.answers = [@ EXCEPT ![Len(@)] = answer]]

\* generatePlan up to the first await, lines 384-394 and 50-59, 129-176
PairStart(c) ==
  /\ pipelines[c].pc = "start"
  /\ LET key == LoadApiKey(runtimeKey, buildKey)
     IN IF MissingApiKey(key)
        THEN PairStep(c, [pipelines[c] EXCEPT !.pc = "done", !.outcome = Thrown(Err("Error"))])
        ELSE PairStep(c, [pipelines[c] EXCEPT !.pc = "fetch", !.apiKey = key, !.attempt = 1])

\* the fetch of call c settles, line 287
PairFetchSettles(c) ==
  /\ pipelines[c].pc = "fetch"
  /\ LET p == pipelines[c]
         Got(answer) == [p EXCEPT !.answers = Append(@, answer)]
     IN \/ PairStep(c, AfterAttempt(Got(Answer("fetch", 0, "", NoResponseJson))))
        \/ \E st \in PairStatuses :
             LET q == Got(Answer("", st, "", NoResponseJson))
             IN IF Ok(st) THEN PairStep(c, [q EXCEPT !.pc = "json"])
                ELSE IF ReadsErrorText(st) THEN PairStep(c, [q EXCEPT !.pc = "text"])
                ELSE PairStep(c, AfterAttempt(q))

\* response.text() of call c settles, line 302
PairTextSettles(c) ==
  /\ pipelines[c].pc = "text"
  /\ LET last == pipelines[c].answers[Len(pipelines[c].answers)]
     IN \/ PairStep(c, AfterAttempt(Answered(c, [last EXCEPT !.rejected = "text"])))
        \/ \E text \in BodyTexts :
             PairStep(c, AfterAttempt(Answered(c, [last EXCEPT !.text = text])))

\* response.json() of call c settles, line 313, with parsedJson a variable of
\* the module: the payload parsed for one call is the payload of every call
PairJsonSettlesSharedDocument(c) ==
  /\ pipelines[c].pc = "json"
  /\ LET last == pipelines[c].answers[Len(pipelines[c].answers)]
     IN \E json \in PairResponseJsons :
          LET p == AfterAttempt(Answered(c, [last EXCEPT !.json = json]))
          IN /\ pipelines' = [d \in Calls |-> IF d = c THEN p
                                               ELSE [pipelines[d] EXCEPT !.parsedJson = p.parsedJson]]
             /\ UNCHANGED <<runtimeKey, buildKey, maxRetries, pc, apiKey, attempt, lastError,
                            requests, inFlight, status, body, errorText, responseJson,
                            parsedJson, validated, ended, outcome, input, calls, db, reqs>>

\* response.json() of call c settles, line 313
PairJsonSettles(c) ==
  /\ pipelines[c].pc = "json"
  /\ LET last == pipelines[c].answers[Len(pipelines[c].answers)]
     IN \/ PairStep(c, AfterAttempt(Answered(c, [last EXCEPT !.rejected = "json"])))
        \/ \E json \in PairResponseJsons :
             PairStep(c, AfterAttempt(Answered(c, [last EXCEPT !.json = json])))

PairNext ==
  \E c \in Calls :
    \/ PairStart(c)
    \/ PairFetchSettles(c)
    \/ PairTextSettles(c)
    \/ PairJsonSettles(c)

SpecPair == PairInit /\ [][PairNext]_vars

RECURSIVE RunAlone(_, _, _)
\* getStructuredData's loop, lines 173-270, run from iteration n on by a call
\* with nothing beside it, given the answers to its requests
RunAlone(answers, n, last) ==
  IF n > maxRetries THEN Thrown(IF last # NoError THEN last ELSE Err("Error"))
  ELSE IF answers = <<>> THEN Pending
  ELSE LET r == AnswerResult(Head(answers))
       IN IF r.error = NoError THEN Returned(r.data)
          ELSE IF ShouldRetryAt(r.error, n) THEN RunAlone(Tail(answers), n + 1, r.error)
          ELSE Thrown(r.error)

\* a call alone: the constructor, then the loop
GeneratePlanAlone(answers) ==
  IF MissingApiKey(LoadApiKey(runtimeKey, buildKey))
  THEN Thrown(Err("Error"))
  ELSE RunAlone(answers, 1, NoError)

\* the payload and the repaired document a call holds come from its own last answer
OwnDocuments(p) ==
  p.parsedJson # NoDoc =>
    /\ p.answers # <<>>
    /\ p.parsedJson = JSONParse(p.answers[Len(p.answers)].json.arguments)
    /\ p.validated = CleanResponse(p.parsedJson)

\* C22: two generatePlan calls running side by side do not interact: under
\* every interleaving of their steps a finished call's result or error is the
\* one the call gives alone for the answers the provider gave it, the
\* documents a call holds are the payload of its own answer and the repair of
\* that payload, and a step of one call changes nothing the other holds.
C22_CallsDoNotInteract ==
  /\ [](\A c \in DOMAIN pipelines :
          /\ pipelines[c].pc = "done" => pipelines[c].outcome = GeneratePlanAlone(pipelines[c].answers)
          /\ OwnDocuments(pipelines[c]))
  /\ [][ \A c \in DOMAIN pipelines :
           pipelines'[c] # pipelines[c] =>
             \A d \in DOMAIN pipelines \ {c} : pipelines'[d] = pipelines[d] ]_vars

\* both calls are over: call 1 threw a SchemaValidationError after a retry,
\* call 2 returned a plan that the clean-up repaired
C22_Witness ==
  /\ pipelines # <<>>
  /\ pipelines[1].pc = "done" /\ pipelines[2].pc = "done"
  /\ pipelines[1].outcome.state = "thrown"
  /\ pipelines[1].outcome.error.kind = "SchemaValidationError"
  /\ Len(pipelines[1].answers) = 2
  /\ pipelines[2].outcome.state = "returned"
  /\ pipelines[2].validated # pipelines[2].parsedJson
  /\ pipelines[1].parsedJson # NoDoc
  /\ pipelines[1].parsedJson # pipelines[2].parsedJson

=============================================================================
